---- MODULE Spec2Model ----
(***************************************************************************)
(* A model of the HPKE / Encrypted ClientHello core of cayolblake/openssl: *)
(*   crypto/hpke.c  (HPKE single-shot seal/open, HKDF labelling, KEM)      *)
(*   ssl/ech.c      (ECHConfig loading, inner/outer ClientHello codec,     *)
(*                   the server's inner/outer session swap)                *)
(*   ssl/ech_local.h                                                       *)
(* Every subsystem has its own specification (SpecHpke, SpecCodec, ...);   *)
(* a specification leaves the variables of the other subsystems alone.     *)
(***************************************************************************)
EXTENDS Integers, Sequences, FiniteSets, TLC

VARIABLES
    hpke,    \* one hpke_enc / hpke_dec exchange: inputs, outputs, position
    codec,   \* one ech_encode_inner / ech_decode_inner exchange
    cfg,     \* one encoded ECHConfigs and what the parser made of it
    srv,     \* one server SSL_CTX, the PEM files and the clock
    conc,    \* one server SSL_CTX with two threads inside SSL_CTX_ech_server_enable
    swap,    \* one server connection: the SSL objects of ech_process_inner_if_present
    dup,     \* SSL_ECH arrays, their strings and keys under SSL_ECH_dup and SSL_ECH_free
    fn       \* one call of a library function: its inputs and what it returned

vars == <<hpke, codec, cfg, srv, conc, swap, dup, fn>>

\* what the actions of one subsystem leave alone
notHpke == <<codec, cfg, srv, conc, swap, dup, fn>>
notCodec == <<hpke, cfg, srv, conc, swap, dup, fn>>
notCfg == <<hpke, codec, srv, conc, swap, dup, fn>>
notSrv == <<hpke, codec, cfg, conc, swap, dup, fn>>
notConc == <<hpke, codec, cfg, srv, swap, dup, fn>>
notSwap == <<hpke, codec, cfg, srv, conc, dup, fn>>
notDup == <<hpke, codec, cfg, srv, conc, swap, fn>>
notFn == <<hpke, codec, cfg, srv, conc, swap, dup>>

(***************************************************************************)
(* Octet strings.  A buffer handed to the library is a record              *)
(*   null : the pointer is NULL                                            *)
(*   d    : its content (octets 0..255; values produced by a primitive of  *)
(*          libcrypto are written as a block that starts with a negative   *)
(*          tag and carries the primitive's inputs, length-prefixed)       *)
(*   n    : its length in octets, as the C code sees it                    *)
(***************************************************************************)
Null == [null |-> TRUE, d |-> <<>>, n |-> 0]

B(d, n) == [null |-> FALSE, d |-> d, n |-> n]

Bytes(s) == B(s, Len(s))

Cat(a, b) == B(a.d \o b.d, a.n + b.n)

I2OSP2(x) == <<(x \div 256) % 256, x % 256>>

RECURSIVE SumTo(_, _)
SumTo(ls, k) == IF k = 0 THEN 0 ELSE ls[k] + SumTo(ls, k - 1)

RECURSIVE SumSeq(_, _)
SumSeq(ss, k) == IF k = 0 THEN <<>> ELSE SumSeq(ss, k - 1) \o ss[k]

\* a C local: v is computed once, then F is applied to its value
With(v, F(_)) == CHOOSE r \in {F(x) : x \in {v}} : TRUE

(***************************************************************************)
(* The value of each variable while its subsystem is not being exercised   *)
(***************************************************************************)
HpkeIdle ==
    [pc |-> "idle", mode |-> 0, suite |-> [kem_id |-> 0, kdf_id |-> 0, aead_id |-> 0],
     skR |-> 0, skS |-> 0, pskid |-> Null, psk |-> Null, info |-> Null, aad |-> Null,
     clear |-> Null, sealed |-> [erv |-> 0, senderpub |-> Null, cipher |-> Null],
     dpub |-> FALSE, opened |-> [erv |-> 0, clear |-> Null]]

CodecIdle ==
    [pc |-> "idle", s |-> <<>>, session_id |-> <<>>, innerch |-> <<>>,
     encoded_innerch |-> <<>>, decoded |-> [rv |-> 0, innerch |-> <<>>]]

CfgIdle ==
    [pc |-> "idle", rs |-> <<>>, tail |-> <<>>, binbuf |-> <<>>,
     er |-> [ok |-> FALSE, nrecs |-> 0, recs |-> <<>>, encoded_len |-> 0, leftover |-> 0]]

\* the PEM files the server is pointed at
Files == {1, 2}

SrvIdle ==
    [pc |-> "idle", ctx |-> [ech |-> <<>>, nechs |-> 0],
     fs |-> [f \in Files |-> [exists |-> FALSE, mtime |-> 0, priv |-> 0, pdata |-> <<>>,
                               nrecs |-> 0]],
     now |-> 0, nkeys |-> 0,
     call |-> [pemfile |-> 0, fnamestat |-> 0, index |-> -1, rv |-> 0]]

ConcIdle == [pc |-> "idle"]

SwapIdle == [pc |-> "idle"]

DupIdle == [pc |-> "idle"]

FnIdle == [pc |-> "idle"]

(***************************************************************************)
(* crypto/hpke.c : the suite registry                                      *)
(***************************************************************************)
HPKE_MODE_BASE == 0
HPKE_MODE_PSK == 1
HPKE_MODE_AUTH == 2
HPKE_MODE_PSKAUTH == 3

HPKE_KEM_ID_P256 == 16
HPKE_KEM_ID_P384 == 17
HPKE_KEM_ID_P521 == 18
HPKE_KEM_ID_25519 == 32
HPKE_KEM_ID_448 == 33

HPKE_MAXSIZE == 640
SHA512_DIGEST_LENGTH == 64

\* a hash is named by its output length in octets; 0 is the NULL hash_init_func
hpke_kem_tab ==
    [i \in 0..34 |->
        CASE i = 16 -> [kem_id |-> HPKE_KEM_ID_P256, hash |-> 32, Nsecret |-> 32,
                        Nenc |-> 65, Npk |-> 65, Npriv |-> 32]
          [] i = 17 -> [kem_id |-> HPKE_KEM_ID_P384, hash |-> 48, Nsecret |-> 48,
                        Nenc |-> 97, Npk |-> 97, Npriv |-> 48]
          [] i = 18 -> [kem_id |-> HPKE_KEM_ID_P521, hash |-> 64, Nsecret |-> 64,
                        Nenc |-> 133, Npk |-> 133, Npriv |-> 66]
          [] i = 32 -> [kem_id |-> HPKE_KEM_ID_25519, hash |-> 32, Nsecret |-> 32,
                        Nenc |-> 32, Npk |-> 32, Npriv |-> 32]
          [] i = 33 -> [kem_id |-> HPKE_KEM_ID_448, hash |-> 64, Nsecret |-> 64,
                        Nenc |-> 56, Npk |-> 56, Npriv |-> 56]
          [] OTHER  -> [kem_id |-> i, hash |-> 0, Nsecret |-> 0,
                        Nenc |-> 0, Npk |-> 0, Npriv |-> 0]]

hpke_kdf_tab ==
    [i \in 0..3 |->
        CASE i = 1 -> [kdf_id |-> 1, hash |-> 32, Nh |-> 32]
          [] i = 2 -> [kdf_id |-> 2, hash |-> 48, Nh |-> 48]
          [] i = 3 -> [kdf_id |-> 3, hash |-> 64, Nh |-> 64]
          [] OTHER -> [kdf_id |-> 0, hash |-> 0, Nh |-> 0]]

hpke_aead_tab ==
    [i \in 0..3 |->
        CASE i = 1 -> [aead_id |-> 1, cipher |-> 1, taglen |-> 16, Nk |-> 16, Nn |-> 12]
          [] i = 2 -> [aead_id |-> 2, cipher |-> 2, taglen |-> 16, Nk |-> 32, Nn |-> 12]
          [] i = 3 -> [aead_id |-> 3, cipher |-> 3, taglen |-> 16, Nk |-> 32, Nn |-> 12]
          [] OTHER -> [aead_id |-> 0, cipher |-> 0, taglen |-> 0, Nk |-> 0, Nn |-> 0]]

\* the same search without the test of the row's function pointer
hpke_suite_check_any_row(suite) ==
    LET kem_ok == \E ind \in DOMAIN hpke_kem_tab : suite.kem_id = hpke_kem_tab[ind].kem_id
        kdf_ok == \E ind \in DOMAIN hpke_kdf_tab : suite.kdf_id = hpke_kdf_tab[ind].kdf_id
        aead_ok == \E ind \in DOMAIN hpke_aead_tab : suite.aead_id = hpke_aead_tab[ind].aead_id
    IN  IF kem_ok /\ kdf_ok /\ aead_ok THEN 1 ELSE 0

hpke_suite_check(suite) ==
    LET kem_ok == \E ind \in DOMAIN hpke_kem_tab :
                      /\ suite.kem_id = hpke_kem_tab[ind].kem_id
                      /\ hpke_kem_tab[ind].hash # 0
        kdf_ok == \E ind \in DOMAIN hpke_kdf_tab :
                      /\ suite.kdf_id = hpke_kdf_tab[ind].kdf_id
                      /\ hpke_kdf_tab[ind].hash # 0
        aead_ok == \E ind \in DOMAIN hpke_aead_tab :
                      /\ suite.aead_id = hpke_aead_tab[ind].aead_id
                      /\ hpke_aead_tab[ind].cipher # 0
    IN  IF kem_ok /\ kdf_ok /\ aead_ok THEN 1 ELSE 0

hpke_mode_check(mode) ==
    IF mode \in {HPKE_MODE_BASE, HPKE_MODE_PSK, HPKE_MODE_AUTH, HPKE_MODE_PSKAUTH}
    THEN 1 ELSE 1251

hpke_psk_check(mode, pskid, psk) ==
    IF mode = HPKE_MODE_BASE \/ mode = HPKE_MODE_AUTH THEN 1
    ELSE IF pskid.null THEN 1274
    ELSE IF psk.n = 0 THEN 1275
    ELSE IF psk.null THEN 1276
    ELSE 1

(***************************************************************************)
(* crypto/hpke.c : HKDF with the three labelling modes                     *)
(***************************************************************************)
HPKE_5869_MODE_PURE == 0
HPKE_5869_MODE_KEM == 1
HPKE_5869_MODE_FULL == 2

HPKE_VERLABEL == <<72, 80, 75, 69, 45, 48, 54>>              \* "HPKE-06"
HPKE_SEC41LABEL == <<75, 69, 77>>                            \* "KEM"
HPKE_SEC51LABEL == <<72, 80, 75, 69>>                        \* "HPKE"
HPKE_EAE_PRK_LABEL == <<101, 97, 101, 95, 112, 114, 107>>    \* "eae_prk"
HPKE_PSKIDHASH_LABEL == <<112, 115, 107, 95, 105, 100, 95, 104, 97, 115, 104>>
HPKE_INFOHASH_LABEL == <<105, 110, 102, 111, 95, 104, 97, 115, 104>>
HPKE_SS_LABEL == <<115, 104, 97, 114, 101, 100, 95, 115, 101, 99, 114, 101, 116>>
HPKE_NONCE_LABEL == <<98, 97, 115, 101, 95, 110, 111, 110, 99, 101>>
HPKE_EXP_LABEL == <<101, 120, 112>>
HPKE_KEY_LABEL == <<107, 101, 121>>
HPKE_PSK_HASH_LABEL == <<112, 115, 107, 95, 104, 97, 115, 104>>
HPKE_SECRET_LABEL == <<115, 101, 99, 114, 101, 116>>

\* the octets hpke_extract / hpke_expand put between the version label and
\* the caller's label
SuiteId(suite, mode5869) ==
    IF mode5869 = HPKE_5869_MODE_KEM
    THEN HPKE_SEC41LABEL \o I2OSP2(suite.kem_id)
    ELSE HPKE_SEC51LABEL \o I2OSP2(suite.kem_id) \o I2OSP2(suite.kdf_id)
             \o I2OSP2(suite.aead_id)

\* the hash hpke_extract / hpke_expand hand to EVP_PKEY_CTX_set_hkdf_md
HkdfMd(suite, mode5869) ==
    IF mode5869 = HPKE_5869_MODE_KEM
    THEN hpke_kem_tab[suite.kem_id].hash
    ELSE hpke_kdf_tab[suite.kdf_id].hash

\* EVP_PKEY_derive in extract-only mode: HKDF-Extract(salt, ikm) under md
HKDF_Extract(md, salt, ikm) ==
    B(<<-1, md, salt.n, Len(salt.d)>> \o salt.d \o <<ikm.n, Len(ikm.d)>> \o ikm.d, md)

\* EVP_PKEY_derive in expand-only mode: HKDF-Expand(prk, info, L) under md
HKDF_Expand(md, prk, info, L) ==
    B(<<-2, md, L, prk.n, Len(prk.d)>> \o prk.d \o <<info.n, Len(info.d)>> \o info.d, L)

\* the lengths hpke_extract adds to concat_offset, one per memcpy / store
ExtractPieces(mode5869, label, ikm) ==
    IF mode5869 = HPKE_5869_MODE_KEM
    THEN <<Len(HPKE_VERLABEL), Len(HPKE_SEC41LABEL), 1, 1, label.n, ikm.n>>
    ELSE <<Len(HPKE_VERLABEL), Len(HPKE_SEC51LABEL), 1, 1, 1, 1, 1, 1, label.n, ikm.n>>

\* hpke_extract tests concat_offset >= HPKE_MAXSIZE after every piece
ExtractOverflow(mode5869, label, ikm) ==
    LET ps == ExtractPieces(mode5869, label, ikm)
    IN  \E k \in 1..Len(ps) : SumTo(ps, k) >= HPKE_MAXSIZE

hpke_extract(suite, mode5869, salt, label, ikm, secretlen) ==
    LET labeled_ikm ==
            IF mode5869 = HPKE_5869_MODE_PURE THEN B(ikm.d, ikm.n)
            ELSE Cat(Cat(Bytes(HPKE_VERLABEL \o SuiteId(suite, mode5869)), label),
                     B(ikm.d, ikm.n))
        md == HkdfMd(suite, mode5869)
    IN  IF mode5869 \notin {HPKE_5869_MODE_PURE, HPKE_5869_MODE_KEM, HPKE_5869_MODE_FULL}
        THEN [erv |-> 756, out |-> Null]
        ELSE IF mode5869 # HPKE_5869_MODE_PURE /\ ExtractOverflow(mode5869, label, ikm)
        THEN [erv |-> 702, out |-> Null]
        ELSE IF md > secretlen
        THEN [erv |-> 789, out |-> Null]
        ELSE [erv |-> 1, out |-> HKDF_Extract(md, salt, labeled_ikm)]

\* the lengths hpke_expand adds to concat_offset after the two octets of L
ExpandPieces(mode5869, label, info) ==
    IF mode5869 = HPKE_5869_MODE_KEM
    THEN <<Len(HPKE_VERLABEL), Len(HPKE_SEC41LABEL), 1, 1, label.n, info.n>>
    ELSE <<Len(HPKE_VERLABEL), Len(HPKE_SEC51LABEL), 1, 1, 1, 1, 1, 1, label.n, info.n>>

\* which pieces of hpke_expand are followed by a test of concat_offset: all
\* of them, except the low octet of aead_id in full mode
ExpandChecked(mode5869, k) ==
    ~(mode5869 = HPKE_5869_MODE_FULL /\ k = 8)

ExpandOverflow(mode5869, label, info) ==
    IF mode5869 = HPKE_5869_MODE_PURE
    THEN label.n + info.n >= HPKE_MAXSIZE
    ELSE LET ps == ExpandPieces(mode5869, label, info)
         IN  \E k \in 1..Len(ps) :
                 ExpandChecked(mode5869, k) /\ 2 + SumTo(ps, k) >= HPKE_MAXSIZE

hpke_expand(suite, mode5869, prk, label, info, L, outlen) ==
    LET libuf ==
            IF mode5869 = HPKE_5869_MODE_PURE THEN Cat(label, B(info.d, info.n))
            ELSE Cat(Cat(Bytes(I2OSP2(L) \o HPKE_VERLABEL \o SuiteId(suite, mode5869)),
                         label), B(info.d, info.n))
        md == HkdfMd(suite, mode5869)
    IN  IF mode5869 \notin {HPKE_5869_MODE_PURE, HPKE_5869_MODE_KEM, HPKE_5869_MODE_FULL}
        THEN [erv |-> 899, out |-> Null]
        ELSE IF ExpandOverflow(mode5869, label, info)
        THEN [erv |-> 845, out |-> Null]
        ELSE [erv |-> 1, out |-> HKDF_Expand(md, prk, libuf, outlen)]

\* one past the last offset of the scratch buffer that is written when the
\* pieces ps are stored from offset base on: piece k is stored when no test
\* after an earlier piece has failed, and tested(k) says whether a test
\* follows piece k
ScratchEnd(ps, base, tested(_)) ==
    LET stored == {k \in 1..Len(ps) :
                      \A j \in 1..(k - 1) :
                          tested(j) => base + SumTo(ps, j) < HPKE_MAXSIZE}
        ends == {base} \cup {base + SumTo(ps, k) : k \in stored}
    IN  CHOOSE e \in ends : \A x \in ends : x <= e

\* what hpke_extract wrote into labeled_ikmbuf
ExtractEnd(mode5869, label, ikm) ==
    IF mode5869 \notin {HPKE_5869_MODE_KEM, HPKE_5869_MODE_FULL} THEN 0
    ELSE ScratchEnd(ExtractPieces(mode5869, label, ikm), 0, LAMBDA k : TRUE)

\* what hpke_expand wrote into libuf
ExpandEnd(mode5869, label, info) ==
    IF mode5869 = HPKE_5869_MODE_PURE
    THEN IF label.n + info.n >= HPKE_MAXSIZE THEN 0 ELSE label.n + info.n
    ELSE IF mode5869 \notin {HPKE_5869_MODE_KEM, HPKE_5869_MODE_FULL} THEN 0
    ELSE ScratchEnd(ExpandPieces(mode5869, label, info), 2,
                    LAMBDA k : ExpandChecked(mode5869, k))

hpke_extract_and_expand(suite, mode5869, shared_secret, context) ==
    LET lsecretlen == hpke_kem_tab[suite.kem_id].Nsecret
    IN  With(hpke_extract(suite, mode5869, Bytes(<<>>), Bytes(HPKE_EAE_PRK_LABEL),
                          shared_secret, HPKE_MAXSIZE), LAMBDA e :
        IF e.erv # 1 THEN [erv |-> e.erv, out |-> Null]
        ELSE With(hpke_expand(suite, mode5869, e.out, Bytes(HPKE_SS_LABEL), context,
                              lsecretlen, lsecretlen), LAMBDA x :
        IF x.erv # 1 THEN [erv |-> x.erv, out |-> Null]
        ELSE [erv |-> 1, out |-> x.out]))

(***************************************************************************)
(* libcrypto key objects.  An EVP_PKEY is a record of a private scalar sk  *)
(* (0 when the object holds no private half) and a public value pk; the    *)
(* Diffie-Hellman group is the multiplicative group modulo 23 generated by *)
(* 5, so that the two sides' derivations are computed, not postulated.     *)
(***************************************************************************)
NoKey == [sk |-> 0, pk |-> 0]

RECURSIVE PowMod(_, _, _)
PowMod(b, e, m) == IF e = 0 THEN 1 ELSE (b * PowMod(b, e - 1, m)) % m

\* EVP_PKEY_keygen / the public half that goes with a private scalar
PubOf(sk) == PowMod(5, sk, 23)

KeyPair(sk) == [sk |-> sk, pk |-> PubOf(sk)]

\* EVP_PKEY_derive after EVP_PKEY_derive_set_peer: the raw DH value
EVP_PKEY_derive(suite, key, peer) ==
    B(<<-3, suite.kem_id, PowMod(peer.pk, key.sk, 23)>>, hpke_kem_tab[suite.kem_id].Npriv)

\* EVP_PKEY_get1_tls_encodedpoint
EVP_PKEY_get1_tls_encodedpoint(suite, key) ==
    B(<<-4, suite.kem_id, key.pk>>, hpke_kem_tab[suite.kem_id].Npk)

\* the octets of a raw private key of the suite's group
RawPriv(suite, sk) ==
    B(<<-6, suite.kem_id, sk>>, hpke_kem_tab[suite.kem_id].Npriv)

\* EVP_PKEY_new_raw_public_key / hpke_EVP_PKEY_new_raw_nist_public_key:
\* NoKey stands for the NULL they return on octets that are no public key
EVP_PKEY_new_raw_public_key(suite, buf) ==
    IF ~buf.null /\ Len(buf.d) = 3 /\ buf.d[1] = -4 /\ buf.d[2] = suite.kem_id
       /\ buf.n = hpke_kem_tab[suite.kem_id].Npk
    THEN [sk |-> 0, pk |-> buf.d[3]]
    ELSE NoKey

\* loading a private key: raw when privlen is Npriv, and the PEM fallback
\* (PEM_read_bio_PrivateKey) fails on anything that is no key
LoadPrivateKey(suite, buf) ==
    IF ~buf.null /\ Len(buf.d) = 3 /\ buf.d[1] = -6 /\ buf.d[2] = suite.kem_id
       /\ buf.n = hpke_kem_tab[suite.kem_id].Npriv
    THEN KeyPair(buf.d[3])
    ELSE NoKey

(***************************************************************************)
(* crypto/hpke.c : the DH KEM                                              *)
(***************************************************************************)
\* the two encoded keys concatenated without regard to the direction
kem_context_flipped(encrypting, key1enc, key2enc) ==
    Cat(key1enc, key2enc)

kem_context_of(encrypting, key1enc, key2enc) ==
    IF encrypting = 1 THEN Cat(key1enc, key2enc) ELSE Cat(key2enc, key1enc)

hpke_do_kem(encrypting, suite, key1, key1enc, key2, key2enc, akey, apub) ==
    LET zz1 == EVP_PKEY_derive(suite, key1, key2)
        ctx0 == kem_context_of(encrypting, key1enc, key2enc)
        zz2 == IF encrypting = 1 THEN EVP_PKEY_derive(suite, akey, key2)
                                 ELSE EVP_PKEY_derive(suite, key1, akey)
    IN  IF zz1.n >= HPKE_MAXSIZE THEN [erv |-> 1153, ss |-> Null]
        ELSE IF key1enc.n + key2enc.n >= HPKE_MAXSIZE THEN [erv |-> 1162, ss |-> Null]
        ELSE IF apub.n # 0 /\ key1enc.n + key2enc.n + apub.n >= HPKE_MAXSIZE
        THEN [erv |-> 1175, ss |-> Null]
        ELSE IF akey # NoKey /\ zz2.n >= HPKE_MAXSIZE THEN [erv |-> 1208, ss |-> Null]
        ELSE With(IF apub.n # 0 THEN Cat(ctx0, apub) ELSE ctx0, LAMBDA kem_context :
             With(IF akey # NoKey THEN Cat(zz1, zz2) ELSE zz1, LAMBDA zz :
             With(hpke_extract_and_expand(suite, HPKE_5869_MODE_KEM, zz, kem_context),
                  LAMBDA r :
             IF r.erv # 1 THEN [erv |-> r.erv, ss |-> Null]
             ELSE [erv |-> 1, ss |-> r.out])))

(***************************************************************************)
(* crypto/hpke.c : the AEAD                                                *)
(***************************************************************************)
\* what the cipher authenticates besides the plaintext: key, nonce, aad
AeadHeader(suite, key, iv, aad) ==
    LET a == IF aad.n # 0 /\ ~aad.null THEN B(aad.d, aad.n) ELSE Bytes(<<>>)
    IN  <<-5, suite.aead_id, key.n, Len(key.d)>> \o key.d \o <<iv.n, Len(iv.d)>> \o iv.d
            \o <<a.n, Len(a.d)>> \o a.d

hpke_aead_enc(suite, key, iv, aad, plain, cipherlen) ==
    LET taglen == hpke_aead_tab[suite.aead_id].taglen
        ct == B(AeadHeader(suite, key, iv, aad) \o <<plain.n, Len(plain.d)>> \o plain.d,
                plain.n + taglen)
    IN  IF taglen + plain.n > cipherlen THEN [erv |-> 537, cipher |-> Null]
        ELSE IF ct.n > cipherlen THEN [erv |-> 592, cipher |-> Null]
        ELSE [erv |-> 1, cipher |-> ct]

\* oob: cipherlen-taglen wrapped around, the tag pointer lies before the
\* buffer.  OPENSSL_malloc(0) returns NULL, so cipherlen 0 fails at once.
hpke_aead_dec(suite, key, iv, aad, cipher, plainlen) ==
    LET taglen == hpke_aead_tab[suite.aead_id].taglen
        hdr == AeadHeader(suite, key, iv, aad)
        h == Len(hdr)
        authentic == /\ Len(cipher.d) >= h + 2
                     /\ SubSeq(cipher.d, 1, h) = hdr
                     /\ cipher.n = cipher.d[h + 1] + taglen
        pt == B(SubSeq(cipher.d, h + 3, Len(cipher.d)), cipher.d[h + 1])
    IN  IF cipher.n = 0 THEN [erv |-> 445, plain |-> Null, oob |-> FALSE]
        ELSE IF cipher.n < taglen THEN [erv |-> 477, plain |-> Null, oob |-> TRUE]
        ELSE IF ~authentic THEN [erv |-> 489, plain |-> Null, oob |-> FALSE]
        ELSE IF pt.n > plainlen THEN [erv |-> 494, plain |-> Null, oob |-> FALSE]
        ELSE [erv |-> 1, plain |-> pt, oob |-> FALSE]

(***************************************************************************)
(* crypto/hpke.c : single-shot seal and open                               *)
(***************************************************************************)
\* steps 3 and 4 of hpke_enc (the same statements stand in hpke_dec):
\* key_schedule_context, secret, then base_nonce, key and exporter
KeySchedule(mode, suite, pskid, psk, info, shared_secret) ==
    LET fail(line) == [erv |-> line, key |-> Null, nonce |-> Null, exporter |-> Null]
        empty == Bytes(<<>>)
        pskid_in == IF psk.null THEN B(pskid.d, 0) ELSE pskid
        Nh == hpke_kdf_tab[suite.kdf_id].Nh
        Nn == hpke_aead_tab[suite.aead_id].Nn
        Nk == hpke_aead_tab[suite.aead_id].Nk
    IN  With(hpke_extract(suite, HPKE_5869_MODE_FULL, empty,
                          Bytes(HPKE_PSKIDHASH_LABEL), pskid_in, HPKE_MAXSIZE - 1),
             LAMBDA e1 :
        IF e1.erv # 1 THEN fail(e1.erv)
        ELSE With(hpke_extract(suite, HPKE_5869_MODE_FULL, empty,
                               Bytes(HPKE_INFOHASH_LABEL), info,
                               HPKE_MAXSIZE - 1 - e1.out.n), LAMBDA e2 :
        IF e2.erv # 1 THEN fail(e2.erv)
        ELSE With(Cat(Cat(Bytes(<<mode % 256>>), e1.out), e2.out), LAMBDA ks_context :
        With(hpke_extract(suite, HPKE_5869_MODE_FULL, empty,
                          Bytes(HPKE_PSK_HASH_LABEL), psk, HPKE_MAXSIZE), LAMBDA e3 :
        IF e3.erv # 1 THEN fail(e3.erv)
        ELSE IF Nh > SHA512_DIGEST_LENGTH THEN fail(1578)
        ELSE With(hpke_extract(suite, HPKE_5869_MODE_FULL, shared_secret,
                               Bytes(HPKE_SECRET_LABEL), psk, Nh), LAMBDA e4 :
        IF e4.erv # 1 THEN fail(1585)
        ELSE With(hpke_expand(suite, HPKE_5869_MODE_FULL, e4.out,
                              Bytes(HPKE_NONCE_LABEL), ks_context, Nn, Nn), LAMBDA x1 :
        IF x1.erv # 1 THEN fail(1595)
        ELSE IF x1.out.n # 12 THEN fail(1598)
        ELSE With(hpke_expand(suite, HPKE_5869_MODE_FULL, e4.out,
                              Bytes(HPKE_KEY_LABEL), ks_context, Nk, Nk), LAMBDA x2 :
        IF x2.erv # 1 THEN fail(1606)
        ELSE With(hpke_expand(suite, HPKE_5869_MODE_FULL, e4.out,
                              Bytes(HPKE_EXP_LABEL), ks_context, Nh, Nh), LAMBDA x3 :
        IF x3.erv # 1 THEN fail(1614)
        ELSE [erv |-> 1, key |-> x2.out, nonce |-> x1.out,
              exporter |-> x3.out]))))))))

\* skE is the private scalar EVP_PKEY_keygen draws; senderpublen and
\* cipherlen are the sizes of the caller's output buffers
hpke_enc(mode, suite, pskid, psk, pub, priv, clear, aad, info, senderpublen, cipherlen, skE) ==
    LET fail(line) == [erv |-> line, senderpub |-> Null, cipher |-> Null]
        auth == mode = HPKE_MODE_AUTH \/ mode = HPKE_MODE_PSKAUTH
        withpsk == mode = HPKE_MODE_PSK \/ mode = HPKE_MODE_PSKAUTH
        pkR == EVP_PKEY_new_raw_public_key(suite, pub)
        pkE == KeyPair(skE)
        skI == IF auth THEN LoadPrivateKey(suite, priv) ELSE NoKey
    IN  IF hpke_mode_check(mode) # 1 THEN fail(hpke_mode_check(mode))
        ELSE IF hpke_psk_check(mode, pskid, psk) # 1
        THEN fail(hpke_psk_check(mode, pskid, psk))
        ELSE IF hpke_suite_check(suite) # 1 THEN fail(hpke_suite_check(suite))
        ELSE IF pub.null \/ clear.null THEN fail(1374)
        ELSE IF auth /\ (priv.null \/ priv.n = 0) THEN fail(1375)
        ELSE IF withpsk /\ (psk.null \/ psk.n = 0 \/ pskid.null) THEN fail(1376)
        ELSE IF pkR = NoKey THEN fail(1431)
        ELSE IF auth /\ skI = NoKey THEN fail(1496)
        ELSE With(EVP_PKEY_get1_tls_encodedpoint(suite, pkE), LAMBDA enc :
             With(IF auth THEN EVP_PKEY_get1_tls_encodedpoint(suite, skI) ELSE Null,
                  LAMBDA mypub :
             With(hpke_do_kem(1, suite, pkE, enc, pkR, pub, skI, mypub), LAMBDA kem :
             IF kem.erv # 1 THEN fail(kem.erv)
             ELSE With(KeySchedule(mode, suite, pskid, psk, info, kem.ss), LAMBDA ks :
             IF ks.erv # 1 THEN fail(ks.erv)
             ELSE With(hpke_aead_enc(suite, ks.key, ks.nonce, aad, clear, HPKE_MAXSIZE),
                       LAMBDA a :
             IF a.erv # 1 THEN fail(a.erv)
             ELSE IF a.cipher.n > cipherlen THEN fail(1642)
             ELSE IF enc.n > senderpublen THEN fail(1650)
             ELSE [erv |-> 1, senderpub |-> enc, cipher |-> a.cipher])))))

\* evppriv is NoKey when the caller passes no EVP_PKEY; clearlen is the size
\* of the caller's output buffer
hpke_dec(mode, suite, pskid, psk, pub, priv, evppriv, enc, cipher, aad, info, clearlen) ==
    LET fail(line) == [erv |-> line, clear |-> Null]
        auth == mode = HPKE_MODE_AUTH \/ mode = HPKE_MODE_PSKAUTH
        withpsk == mode = HPKE_MODE_PSK \/ mode = HPKE_MODE_PSKAUTH
        pkE == EVP_PKEY_new_raw_public_key(suite, enc)
        havepub == pub.n # 0 /\ ~pub.null
        pkI == IF havepub THEN EVP_PKEY_new_raw_public_key(suite, pub) ELSE NoKey
        skR == IF evppriv = NoKey THEN LoadPrivateKey(suite, priv) ELSE evppriv
    IN  IF hpke_mode_check(mode) # 1 THEN fail(hpke_mode_check(mode))
        ELSE IF hpke_psk_check(mode, pskid, psk) # 1
        THEN fail(hpke_psk_check(mode, pskid, psk))
        ELSE IF hpke_suite_check(suite) # 1 THEN fail(hpke_suite_check(suite))
        ELSE IF (priv.null /\ evppriv = NoKey) \/ cipher.null THEN fail(1754)
        ELSE IF auth /\ (pub.null \/ pub.n = 0) THEN fail(1755)
        ELSE IF withpsk /\ (psk.null \/ psk.n = 0 \/ pskid.null) THEN fail(1756)
        ELSE IF pkE = NoKey THEN fail(1805)
        ELSE IF havepub /\ pkI = NoKey THEN fail(1814)
        ELSE IF skR = NoKey THEN fail(1835)
        ELSE With(EVP_PKEY_get1_tls_encodedpoint(suite, skR), LAMBDA mypub :
             With(hpke_do_kem(0, suite, skR, mypub, pkE, enc, pkI, pub), LAMBDA kem :
             IF kem.erv # 1 THEN fail(kem.erv)
             ELSE With(KeySchedule(mode, suite, pskid, psk, info, kem.ss), LAMBDA ks :
             IF ks.erv # 1 THEN fail(ks.erv)
             ELSE With(hpke_aead_dec(suite, ks.key, ks.nonce, aad, cipher, HPKE_MAXSIZE),
                       LAMBDA a :
             IF a.erv # 1 THEN fail(a.erv)
             ELSE IF a.plain.n > clearlen THEN fail(1981)
             ELSE [erv |-> 1, clear |-> a.plain]))))

(***************************************************************************)
(* SpecHpke: a sender seals one message with hpke_enc and the recipient    *)
(* opens what the sender produced with hpke_dec.                           *)
(***************************************************************************)
MaxSk == 2            \* private scalars are 1..MaxSk

Suites ==
    {[kem_id |-> k, kdf_id |-> f, aead_id |-> a] :
        k \in {HPKE_KEM_ID_P256, HPKE_KEM_ID_P384, HPKE_KEM_ID_P521,
               HPKE_KEM_ID_25519, HPKE_KEM_ID_448},
        f \in 1..3, a \in 1..3}

\* pre-shared keys as the caller passes them: none, or an identifier (a C
\* string, its length is its strlen) with key octets
PskInputs ==
    {[pskid |-> Null, psk |-> Null],
     [pskid |-> Bytes(<<112>>), psk |-> Bytes(<<7, 7>>)]}

\* info: short, and one that no longer fits the labelling buffer
InfoInputs == {Bytes(<<1>>), B(<<2>>, HPKE_MAXSIZE - 20)}

AadInputs == {Null, Bytes(<<3>>)}

\* plaintexts: the longest whose ciphertext fits, and one octet more
ClearInputs == {B(<<4, 5>>, HPKE_MAXSIZE - 16), B(<<6>>, HPKE_MAXSIZE - 15)}

InitHpke ==
    /\ \E mode \in HPKE_MODE_BASE..HPKE_MODE_PSKAUTH, suite \in Suites,
       skR \in 1..MaxSk, p \in PskInputs,
       info \in InfoInputs, aad \in AadInputs, clear \in ClearInputs :
      \E skS \in IF mode \in {HPKE_MODE_AUTH, HPKE_MODE_PSKAUTH} THEN 1..MaxSk ELSE {1} :
        hpke = [HpkeIdle EXCEPT !.pc = "start", !.mode = mode, !.suite = suite,
                                !.skR = skR, !.skS = skS, !.pskid = p.pskid,
                                !.psk = p.psk, !.info = info, !.aad = aad,
                                !.clear = clear]
    /\ codec = CodecIdle
    /\ cfg = CfgIdle
    /\ srv = SrvIdle
    /\ conc = ConcIdle
    /\ swap = SwapIdle
    /\ dup = DupIdle
    /\ fn = FnIdle

\* the sender calls hpke_enc with the recipient's public key and, in the
\* authenticated modes, its own private key
HpkeEnc ==
    /\ hpke.pc = "start"
    /\ \E skE \in 1..MaxSk :
      \E r \in {hpke_enc(hpke.mode, hpke.suite, hpke.pskid, hpke.psk,
                          EVP_PKEY_get1_tls_encodedpoint(hpke.suite, KeyPair(hpke.skR)),
                          IF hpke.mode \in {HPKE_MODE_AUTH, HPKE_MODE_PSKAUTH}
                          THEN RawPriv(hpke.suite, hpke.skS) ELSE Null,
                          hpke.clear, hpke.aad, hpke.info,
                          HPKE_MAXSIZE, HPKE_MAXSIZE, skE)} :
            hpke' = [hpke EXCEPT !.pc = IF r.erv = 1 THEN "sealed" ELSE "encfailed",
                                 !.sealed = r]
    /\ UNCHANGED notHpke

\* the recipient calls hpke_dec on the sender's output with the same mode,
\* suite, psk, aad and info; dpub says whether it passes the sender's
\* public key
HpkeDec ==
    /\ hpke.pc = "sealed"
    /\ \E dpub \in BOOLEAN :
      \E r \in {hpke_dec(hpke.mode, hpke.suite, hpke.pskid, hpke.psk,
                          IF dpub
                          THEN EVP_PKEY_get1_tls_encodedpoint(hpke.suite, KeyPair(hpke.skS))
                          ELSE Null,
                          RawPriv(hpke.suite, hpke.skR), NoKey,
                          hpke.sealed.senderpub, hpke.sealed.cipher,
                          hpke.aad, hpke.info, HPKE_MAXSIZE)} :
            hpke' = [hpke EXCEPT !.pc = "opened", !.dpub = dpub, !.opened = r]
    /\ UNCHANGED notHpke

NextHpke == HpkeEnc \/ HpkeDec

\* C1: whenever hpke_enc succeeded and hpke_dec was run on its output with the
\* same mode, suite, psk, aad and info, the recipient's private key, and the
\* sender's public key exactly in the authenticated modes, hpke_dec returns
\* 1 and its cleartext is the sender's plaintext, octets and length.
C1_RoundTrip ==
    (hpke.pc = "opened"
        /\ (hpke.dpub <=> hpke.mode \in {HPKE_MODE_AUTH, HPKE_MODE_PSKAUTH}))
    => (hpke.opened.erv = 1 /\ hpke.opened.clear = hpke.clear)

\* an authenticated-mode exchange over P-521 with a psk has been opened
C1_Witness ==
    /\ hpke.pc = "opened"
    /\ hpke.dpub
    /\ hpke.mode = HPKE_MODE_PSKAUTH
    /\ hpke.suite.kem_id = HPKE_KEM_ID_P521
    /\ hpke.opened.erv = 1
    /\ hpke.opened.clear.n = HPKE_MAXSIZE - 16

(***************************************************************************)
(* ssl/ech.c : the inner ClientHello codec.  Buffers are sequences of      *)
(* octets; At reads at a C (zero-based) offset.                            *)
(***************************************************************************)
At(buf, i) == buf[i + 1]

At16(buf, i) == At(buf, i) * 256 + At(buf, i + 1)

\* WPACKET_put_bytes_u16 and the length octets WPACKET_close fills in
U16(x) == <<(x \div 256) % 256, x % 256>>

U24(x) == <<(x \div 65536) % 256, (x \div 256) % 256, x % 256>>

SSL3_MT_CLIENT_HELLO == 1
SSL3_RANDOM_SIZE == 32
TLSEXT_TYPE_outer_extensions == 64768
ECH_OUTERS_MAX == 10

\* one extension on the wire: type, length, value
ExtBytes(type, data) == U16(type) \o U16(Len(data)) \o data

\* is the type one of s->ext.outer_only[0..n_outer_only) ?
tobecompressed(type, outer_only) ==
    \E ooi \in 1..Len(outer_only) : outer_only[ooi] = type

\* the extension loop of ech_encode_inner from index ind on
RECURSIVE EncodeExts(_, _, _, _)
EncodeExts(raws, outer_only, ind, compression_done) ==
    IF ind > Len(raws) THEN <<>>
    ELSE IF ~raws[ind].present THEN EncodeExts(raws, outer_only, ind + 1, compression_done)
    ELSE LET tbc == tobecompressed(raws[ind].type, outer_only)
             oe == IF ~compression_done /\ tbc
                   THEN U16(TLSEXT_TYPE_outer_extensions) \o U16(2 * Len(outer_only))
                        \o SumSeq([i \in 1..Len(outer_only) |-> U16(outer_only[i])],
                                  Len(outer_only))
                   ELSE <<>>
             own == IF ~tbc THEN ExtBytes(raws[ind].type, raws[ind].data) ELSE <<>>
         IN  oe \o own \o EncodeExts(raws, outer_only, ind + 1, compression_done \/ tbc)

\* s: client_version, client_random, ciphers (the octets
\* ssl_cipher_list_to_bytes writes), raws (pre_proc_exts), outer_only
ech_encode_inner(s) ==
    LET exts == EncodeExts(s.raws, s.outer_only, 1, FALSE)
        body == U16(s.client_version) \o s.client_random
                \o <<0>>
                \o U16(Len(s.ciphers)) \o s.ciphers
                \o <<1, 0>>
                \o U16(Len(exts)) \o exts
    IN  <<SSL3_MT_CLIENT_HELLO>> \o U24(Len(body)) \o body

\* are the k octets from offset i on inside buf ?
Inside(buf, i, k) == i >= 0 /\ k >= 0 /\ i + k <= Len(buf)

\* the first loop of ech_decode_inner: skip extensions until
\* outer_extensions is seen or remaining is used up; oob says that the loop
\* read a type or a length beyond the buffer
RECURSIVE FindOuterExtensions(_, _, _)
FindOuterExtensions(buf, genoffset, remaining) ==
    IF remaining <= 0 THEN [found |-> 0, genoffset |-> genoffset, elen |-> 0, oob |-> FALSE]
    ELSE IF ~Inside(buf, genoffset, 4)
    THEN [found |-> 0, genoffset |-> genoffset, elen |-> 0, oob |-> TRUE]
    ELSE With(At16(buf, genoffset), LAMBDA etype :
         With(At16(buf, genoffset + 2), LAMBDA elen :
         IF etype = TLSEXT_TYPE_outer_extensions
         THEN [found |-> 1, genoffset |-> genoffset, elen |-> elen, oob |-> FALSE]
         ELSE FindOuterExtensions(buf, genoffset + elen + 4, remaining - (elen + 4))))

\* the second loop: walk the outer's extensions and note, for every entry
\* of outers[] that names the type, its size and offset.  -1 marks an
\* array element that was never written.
RECURSIVE ScanOuter(_, _, _, _, _)
ScanOuter(oexts, outers, ep, remaining, acc) ==
    IF remaining <= 0 THEN acc
    ELSE IF ~Inside(oexts, ep, 4) THEN [acc EXCEPT !.oob = TRUE]
    ELSE With(At16(oexts, ep), LAMBDA etype :
         With(At16(oexts, ep + 2), LAMBDA elen :
         With({iind \in 1..Len(outers) : outers[iind] = etype}, LAMBDA hit :
         With([outer_sizes |-> [i \in 1..Len(outers) |->
                                   IF i \in hit THEN elen ELSE acc.outer_sizes[i]],
               outer_offsets |-> [i \in 1..Len(outers) |->
                                   IF i \in hit THEN ep ELSE acc.outer_offsets[i]],
               tot_outer_lens |-> acc.tot_outer_lens + Cardinality(hit) * (elen + 4),
               found_outers |-> acc.found_outers + Cardinality(hit),
               oob |-> FALSE], LAMBDA acc2 :
         ScanOuter(oexts, outers, ep + elen + 4, remaining - (elen + 4), acc2)))))

\* the splice loop: type, size and value of every enumerated extension
RECURSIVE SpliceOuters(_, _, _, _)
SpliceOuters(oexts, outers, sc, iind) ==
    IF iind > Len(outers) THEN <<>>
    ELSE LET ooffset == sc.outer_offsets[iind] + 4
             osize == sc.outer_sizes[iind]
         IN  <<(outers[iind] \div 256) % 256, outers[iind] % 256,
               (osize \div 256) % 256, osize % 256>>
             \o SubSeq(oexts, ooffset + 1, ooffset + osize)
             \o SpliceOuters(oexts, outers, sc, iind + 1)

\* the closing length fix-up of ech_decode_inner
FixLengths(final_decomp, startofexts, tot_outer_lens, n_outers) ==
    LET final_decomp_len == Len(final_decomp)
        outer_exts_len == 4 + 2 * n_outers
        initial_oolen == At16(final_decomp, startofexts)
        oolen == initial_oolen + tot_outer_lens - outer_exts_len
    IN  [final_decomp EXCEPT
            ![2] = ((final_decomp_len - 5) \div (256 * 256)) % 255,
            ![3] = ((final_decomp_len - 5) \div 256) % 255,
            ![4] = (final_decomp_len - 5) % 255,
            ![startofexts + 1] = (oolen \div 256) % 255,
            ![startofexts + 2] = oolen % 255]

\* what ech_decode_inner hands back: rv 1 comes with the new s->ext.innerch;
\* oob says that it read or wrote beyond a buffer, uninit that it spliced
\* from an element of outer_sizes[] and outer_offsets[] it never wrote
DecodeRet(rv, innerch, oob, uninit) ==
    [rv |-> rv, innerch |-> innerch, oob |-> oob, uninit |-> uninit]

\* encoded_innerch and tmp_session_id are the outer session's; oexts is the
\* outer's clienthello->extensions.
ech_decode_inner(encoded_innerch, tmp_session_id, oexts) ==
    LET offset2sessid == 6 + 32
        sidlen == Len(tmp_session_id)
        initial_decomp == SubSeq(encoded_innerch, 1, offset2sessid)
                          \o <<sidlen>> \o tmp_session_id
                          \o SubSeq(encoded_innerch, offset2sessid + 2,
                                    Len(encoded_innerch))
    IN  IF ~Inside(encoded_innerch, 0, offset2sessid + 3)
        THEN DecodeRet(0, <<>>, TRUE, FALSE)
        ELSE
        With(initial_decomp, LAMBDA id :
        With(offset2sessid + 1 + At16(encoded_innerch, offset2sessid + 1) + 2 + sidlen + 2,
             LAMBDA startofexts :
        IF ~Inside(id, startofexts, 2) THEN DecodeRet(0, <<>>, TRUE, FALSE)
        ELSE
        With(FindOuterExtensions(id, startofexts + 2, At16(id, startofexts)), LAMBDA f :
        IF f.oob THEN DecodeRet(0, <<>>, TRUE, FALSE)
        ELSE IF f.found = 0 THEN DecodeRet(1, id, FALSE, FALSE)
        ELSE With(f.elen \div 2, LAMBDA n_outers :
        IF n_outers <= 0 \/ n_outers > ECH_OUTERS_MAX THEN DecodeRet(0, <<>>, FALSE, FALSE)
        ELSE IF ~Inside(id, f.genoffset + 4, 2 * n_outers)
        THEN DecodeRet(0, <<>>, TRUE, FALSE)
        ELSE With([i \in 1..n_outers |-> At16(id, f.genoffset + 4 + 2 * (i - 1))],
                  LAMBDA outers :
        With(ScanOuter(oexts, outers, 0, Len(oexts),
                       [outer_sizes |-> [i \in 1..n_outers |-> -1],
                        outer_offsets |-> [i \in 1..n_outers |-> -1],
                        tot_outer_lens |-> 0, found_outers |-> 0, oob |-> FALSE]),
             LAMBDA sc :
        IF sc.oob THEN DecodeRet(0, <<>>, TRUE, FALSE)
        ELSE IF sc.found_outers # n_outers THEN DecodeRet(0, <<>>, FALSE, FALSE)
        ELSE IF \E i \in 1..n_outers : sc.outer_sizes[i] = -1
        THEN DecodeRet(1, <<>>, FALSE, TRUE)
        ELSE IF \E i \in 1..n_outers :
                    ~Inside(oexts, sc.outer_offsets[i] + 4, sc.outer_sizes[i])
        THEN DecodeRet(0, <<>>, TRUE, FALSE)
        ELSE With(SubSeq(id, 1, f.genoffset)
                  \o SpliceOuters(oexts, outers, sc, 1)
                  \o SubSeq(id, f.genoffset + 4 + 2 * n_outers + 1, Len(id)),
                  LAMBDA final_decomp :
             DecodeRet(1, FixLengths(final_decomp, startofexts, sc.tot_outer_lens,
                                     n_outers), FALSE, FALSE))))))))

(***************************************************************************)
(* SpecCodec: a client builds an inner ClientHello, ech_encode_inner       *)
(* compresses it against the outer, and the server's ech_decode_inner      *)
(* rebuilds it from the encoding and the outer ClientHello.                *)
(***************************************************************************)
\* the ClientHello layout both functions rely on (legacy_version, random,
\* legacy_session_id, cipher_suites, legacy_compression_methods, extensions)
ClientHello(s, session_id) ==
    LET exts == SumSeq([i \in 1..Len(s.raws) |->
                           IF s.raws[i].present
                           THEN ExtBytes(s.raws[i].type, s.raws[i].data) ELSE <<>>],
                       Len(s.raws))
        body == U16(s.client_version) \o s.client_random
                \o <<Len(session_id)>> \o session_id
                \o U16(Len(s.ciphers)) \o s.ciphers
                \o <<1, 0>>
                \o U16(Len(exts)) \o exts
    IN  <<SSL3_MT_CLIENT_HELLO>> \o U24(Len(body)) \o body

\* the outer's extension region: its own server_name, then the inner's
\* extensions repeated with the inner's values (ech_same_ext)
OuterExtensions(s) ==
    ExtBytes(0, <<0, 3, 0, 0, 0>>)
    \o SumSeq([i \in 1..Len(s.raws) |->
                  IF s.raws[i].present
                  THEN ExtBytes(s.raws[i].type, s.raws[i].data) ELSE <<>>],
              Len(s.raws))

\* the extension types a ClientHello of the model may carry, in the order
\* of the extension table, with their values: max_fragment_length,
\* ec_point_formats, supported_groups, extended_master_secret,
\* supported_versions
ExtTable ==
    <<[type |-> 1, data |-> <<1>>], [type |-> 11, data |-> <<1, 0>>],
      [type |-> 10, data |-> <<0, 2, 0, 29>>], [type |-> 23, data |-> <<>>],
      [type |-> 43, data |-> <<2, 3, 4>>]>>

MaxSid == 32          \* legacy_session_id<0..32>

SidInputs == {<<>>, <<7>>, [i \in 1..MaxSid |-> 100 + i]}

\* the subsequence of the table's types that sel picks, in table order
RECURSIVE PickTypes(_, _)
PickTypes(sel, k) ==
    IF k = 0 THEN <<>>
    ELSE PickTypes(sel, k - 1) \o (IF k \in sel THEN <<ExtTable[k].type>> ELSE <<>>)

\* the client's session after the inner ClientHello was constructed: the
\* extensions present, and outer_only[] as ech_same_ext filled it
InitCodec ==
    /\ \E present \in SUBSET (1..Len(ExtTable)), session_id \in SidInputs :
      \E comp \in SUBSET present :
        \E s \in {[client_version |-> 771,
                   client_random |-> [i \in 1..SSL3_RANDOM_SIZE |-> i],
                   ciphers |-> <<19, 1, 19, 2>>,
                   raws |-> [i \in 1..Len(ExtTable) |->
                               [type |-> ExtTable[i].type, data |-> ExtTable[i].data,
                                present |-> i \in present]],
                   outer_only |-> PickTypes(comp, Len(ExtTable))]} :
            codec = [CodecIdle EXCEPT !.pc = "built", !.s = s,
                                      !.session_id = session_id,
                                      !.innerch = ClientHello(s, session_id)]
    /\ hpke = HpkeIdle
    /\ cfg = CfgIdle
    /\ srv = SrvIdle
    /\ conc = ConcIdle
    /\ swap = SwapIdle
    /\ dup = DupIdle
    /\ fn = FnIdle

EchEncodeInner ==
    /\ codec.pc = "built"
    /\ codec' = [codec EXCEPT !.pc = "encoded",
                              !.encoded_innerch = ech_encode_inner(codec.s)]
    /\ UNCHANGED notCodec

EchDecodeInner ==
    /\ codec.pc = "encoded"
    /\ \E r \in {ech_decode_inner(codec.encoded_innerch, codec.session_id,
                                  OuterExtensions(codec.s))} :
           codec' = [codec EXCEPT !.pc = "decoded", !.decoded = r]
    /\ UNCHANGED notCodec

NextCodec == EchEncodeInner \/ EchDecodeInner

\* C2: once ech_decode_inner has run on what ech_encode_inner produced, it
\* returned 1 and the inner ClientHello it rebuilt equals, octet for octet,
\* the inner ClientHello the client had built.
C2_RoundTrip ==
    codec.pc = "decoded"
        => (codec.decoded.rv = 1 /\ codec.decoded.innerch = codec.innerch)

\* the handshake length of a ClientHello, and the offset of its extensions
\* length behind session id, cipher suites and compression methods
HandshakeLength(ch) == At(ch, 1) * 65536 + At16(ch, 2)

ExtensionsOffset(ch) ==
    With(4 + 2 + SSL3_RANDOM_SIZE, LAMBDA sid :
    With(sid + 1 + At(ch, sid), LAMBDA suites :
        suites + 2 + At16(ch, suites) + 2))

\* C24: after a successful ech_decode_inner the handshake length in octets
\* 1..3 of the rebuilt ClientHello is its length less the 4-octet header,
\* and its extensions length counts the octets of extensions behind it.
C24_LengthsFixed ==
    (codec.pc = "decoded" /\ codec.decoded.rv = 1)
        => With(codec.decoded.innerch, LAMBDA ch :
               /\ HandshakeLength(ch) = Len(ch) - 4
               /\ At16(ch, ExtensionsOffset(ch)) = Len(ch) - (ExtensionsOffset(ch) + 2))

\* the extension region the encoded inner would have with the extensions
\* that keep their value first, in their order, and outer_extensions last
KeptThenOuter(s) ==
    SumSeq([i \in 1..Len(s.raws) |->
               IF s.raws[i].present /\ ~tobecompressed(s.raws[i].type, s.outer_only)
               THEN ExtBytes(s.raws[i].type, s.raws[i].data) ELSE <<>>],
           Len(s.raws))
    \o U16(TLSEXT_TYPE_outer_extensions) \o U16(2 * Len(s.outer_only))
    \o SumSeq([i \in 1..Len(s.outer_only) |-> U16(s.outer_only[i])], Len(s.outer_only))

\* the extension region of an encoded inner whose session id is empty
EncodedExtensions(enc) ==
    With(4 + 2 + SSL3_RANDOM_SIZE + 1, LAMBDA suites :
    With(suites + 2 + At16(enc, suites) + 2, LAMBDA exts :
        SubSeq(enc, exts + 2 + 1, exts + 2 + At16(enc, exts))))

\* C22: when at least one extension is compressed, the encoded inner has one
\* outer_extensions extension, after all the extensions that keep their
\* value, holding 2*N and the N compressed types in the order met; the
\* extensions that keep their value keep their relative order.
C22_OuterExtensionsLast ==
    (codec.pc = "encoded" /\ codec.s.outer_only # <<>>)
        => EncodedExtensions(codec.encoded_innerch) = KeptThenOuter(codec.s)

(***************************************************************************)
(* ssl/ech.c : the ECHConfigs parser.  A PACKET is the buffer and the      *)
(* offset of its next unread octet.                                        *)
(***************************************************************************)
ECH_MIN_ECHCONFIG_LEN == 32
ECH_MAX_ECHCONFIG_LEN == 512
ECH_CIPHER_LEN == 4
ECH_DRAFT_09_VERSION == 65289
TLSEXT_MAXLEN_host_name == 255

PACKET_remaining(buf, pos) == Len(buf) - pos

\* PACKET_get_net_2
PACKET_get_net_2(buf, pos) ==
    IF PACKET_remaining(buf, pos) < 2 THEN [ok |-> FALSE, v |-> 0, pos |-> pos]
    ELSE [ok |-> TRUE, v |-> At16(buf, pos), pos |-> pos + 2]

\* PACKET_get_length_prefixed_2: the sub-packet's octets
PACKET_get_length_prefixed_2(buf, pos) ==
    IF PACKET_remaining(buf, pos) < 2 THEN [ok |-> FALSE, v |-> <<>>, pos |-> pos]
    ELSE IF PACKET_remaining(buf, pos) - 2 < At16(buf, pos)
    THEN [ok |-> FALSE, v |-> <<>>, pos |-> pos]
    ELSE [ok |-> TRUE, v |-> SubSeq(buf, pos + 3, pos + 2 + At16(buf, pos)),
          pos |-> pos + 2 + At16(buf, pos)]

\* the ciphersuite loop: ECH_CIPHER_LEN octets at a time
RECURSIVE CipherSuites(_, _)
CipherSuites(buf, pos) ==
    IF PACKET_remaining(buf, pos) < ECH_CIPHER_LEN THEN <<>>
    ELSE <<SubSeq(buf, pos + 1, pos + ECH_CIPHER_LEN)>>
         \o CipherSuites(buf, pos + ECH_CIPHER_LEN)

\* the extensions loop over the exts sub-packet
RECURSIVE ConfigExts(_, _, _)
ConfigExts(buf, pos, acc) ==
    IF PACKET_remaining(buf, pos) <= 0 THEN [ok |-> TRUE, exts |-> acc]
    ELSE With(PACKET_get_net_2(buf, pos), LAMBDA t :
         IF ~t.ok THEN [ok |-> FALSE, exts |-> acc]
         ELSE With(PACKET_get_net_2(buf, t.pos), LAMBDA l :
         IF ~l.ok THEN [ok |-> FALSE, exts |-> acc]
         ELSE IF l.v # 0 /\ PACKET_remaining(buf, l.pos) < l.v
         THEN [ok |-> FALSE, exts |-> acc]
         ELSE ConfigExts(buf, l.pos + l.v,
                         Append(acc, [type |-> t.v,
                                      val |-> SubSeq(buf, l.pos + 1, l.pos + l.v)]))))

\* the body of the record loop for a record of version 0xff09, from the
\* public_name on
ParseConfig(buf, pos) ==
    LET bad(held) == [ok |-> FALSE, ec |-> <<>>, pos |-> pos, held |-> held]
    IN  With(PACKET_get_length_prefixed_2(buf, pos), LAMBDA public_name :
        IF ~public_name.ok THEN bad(0)
        ELSE IF Len(public_name.v) <= 1 \/ Len(public_name.v) > TLSEXT_MAXLEN_host_name
        THEN bad(0)
        ELSE With(PACKET_get_length_prefixed_2(buf, public_name.pos), LAMBDA pub :
        IF ~pub.ok THEN bad(1)
        \* OPENSSL_malloc(0) is NULL
        ELSE IF Len(pub.v) = 0 THEN bad(1)
        ELSE With(PACKET_get_net_2(buf, pub.pos), LAMBDA kem_id :
        IF ~kem_id.ok THEN bad(2)
        ELSE With(PACKET_get_length_prefixed_2(buf, kem_id.pos), LAMBDA cipher_suites :
        IF ~cipher_suites.ok THEN bad(2)
        ELSE IF Len(cipher_suites.v) <= 0 \/ (Len(cipher_suites.v) % 1) # 0 THEN bad(2)
        ELSE IF Len(cipher_suites.v) % ECH_CIPHER_LEN > 0 THEN bad(2)
        ELSE With(PACKET_get_net_2(buf, cipher_suites.pos), LAMBDA maximum_name_length :
        IF ~maximum_name_length.ok THEN bad(3)
        ELSE With(PACKET_get_length_prefixed_2(buf, maximum_name_length.pos), LAMBDA exts :
        IF ~exts.ok THEN bad(3)
        ELSE With(ConfigExts(exts.v, 0, <<>>), LAMBDA xs :
        IF ~xs.ok THEN bad(3)
        ELSE [ok |-> TRUE,
              ec |-> [version |-> ECH_DRAFT_09_VERSION,
                      public_name |-> public_name.v, pub |-> pub.v,
                      kem_id |-> kem_id.v,
                      ciphersuites |-> CipherSuites(cipher_suites.v, 0),
                      maximum_name_length |-> maximum_name_length.v,
                      exts |-> xs.exts],
              pos |-> exts.pos, held |-> 0])))))))

\* the record loop of ECHConfigs_from_binary; remaining is the local of
\* that name, which the loop condition tests.  held counts the buffers the
\* record that failed had allocated (public_name, pub, ciphersuites).
RECURSIVE RecordLoop(_, _, _, _, _)
RecordLoop(buf, pos, remaining, not_to_consume, recs) ==
    IF ~(remaining > not_to_consume) THEN [ok |-> TRUE, recs |-> recs, pos |-> pos, held |-> 0]
    ELSE With(PACKET_get_net_2(buf, pos), LAMBDA version :
         IF ~version.ok THEN [ok |-> FALSE, recs |-> recs, pos |-> pos, held |-> 0]
         ELSE With(PACKET_get_net_2(buf, version.pos), LAMBDA ech_content_length :
         IF ~ech_content_length.ok THEN [ok |-> FALSE, recs |-> recs, pos |-> pos, held |-> 0]
         ELSE With(PACKET_remaining(buf, ech_content_length.pos), LAMBDA rem2 :
         \* unsigned: a length below 2 wraps to more than any buffer holds
         IF ech_content_length.v < 2 \/ ech_content_length.v - 2 > rem2
         THEN [ok |-> FALSE, recs |-> recs, pos |-> pos, held |-> 0]
         ELSE IF version.v # ECH_DRAFT_09_VERSION
         THEN IF rem2 < ech_content_length.v
              THEN [ok |-> FALSE, recs |-> recs, pos |-> pos, held |-> 0]
              ELSE RecordLoop(buf, ech_content_length.pos + ech_content_length.v,
                              rem2, not_to_consume, recs)
         ELSE With(ParseConfig(buf, ech_content_length.pos), LAMBDA c :
              IF ~c.ok THEN [ok |-> FALSE, recs |-> recs, pos |-> pos, held |-> c.held]
              ELSE RecordLoop(buf, c.pos, PACKET_remaining(buf, c.pos),
                              not_to_consume, Append(recs, c.ec))))))

\* NULL is ok = FALSE; otherwise the ECHConfigs and *leftover
ECHConfigs_from_binary(binbuf) ==
    LET binblen == Len(binbuf)
        null == [ok |-> FALSE, nrecs |-> 0, recs |-> <<>>, encoded_len |-> 0,
                 leftover |-> 0]
    IN  IF binblen < ECH_MIN_ECHCONFIG_LEN THEN null
        ELSE IF binblen >= ECH_MAX_ECHCONFIG_LEN THEN null
        ELSE With(At16(binbuf, 0), LAMBDA olen :
        IF olen < ECH_MIN_ECHCONFIG_LEN \/ olen > binblen - 2 THEN null
        ELSE With(RecordLoop(binbuf, 2, PACKET_remaining(binbuf, 2), binblen - olen,
                             <<>>), LAMBDA r :
        IF ~r.ok THEN null
        ELSE IF PACKET_remaining(binbuf, r.pos) < 0
                \/ PACKET_remaining(binbuf, r.pos) > binblen THEN null
        ELSE [ok |-> TRUE, nrecs |-> Len(r.recs), recs |-> r.recs,
              encoded_len |-> binblen,
              leftover |-> PACKET_remaining(binbuf, r.pos)]))

(***************************************************************************)
(* SpecCfg: an encoded ECHConfigs is handed to ECHConfigs_from_binary.     *)
(***************************************************************************)
\* the wire form of one record (ech_local.h: ECHConfig, ECHConfigContents)
EncodeContents(r) ==
    LET exts == SumSeq([i \in 1..Len(r.exts) |-> ExtBytes(r.exts[i].type, r.exts[i].val)],
                       Len(r.exts))
        suites == SumSeq(r.ciphersuites, Len(r.ciphersuites))
    IN  U16(Len(r.public_name)) \o r.public_name
        \o U16(Len(r.pub)) \o r.pub
        \o U16(r.kem_id)
        \o U16(Len(suites)) \o suites
        \o U16(r.maximum_name_length)
        \o U16(Len(exts)) \o exts

EncodeConfig(r) ==
    IF r.version = ECH_DRAFT_09_VERSION
    THEN U16(r.version) \o U16(Len(EncodeContents(r))) \o EncodeContents(r)
    ELSE U16(r.version) \o U16(Len(r.opaque)) \o r.opaque

\* ECHConfig ECHConfigs<1..2^16-1>
EncodeConfigs(rs) ==
    LET all == SumSeq([i \in 1..Len(rs) |-> EncodeConfig(rs[i])], Len(rs))
    IN  U16(Len(all)) \o all

\* the records of the model: two of version 0xff09 and one of a version
\* the parser does not know, with 30 opaque octets
ConfigKinds ==
    {[version |-> ECH_DRAFT_09_VERSION, public_name |-> <<97, 98>>,
      pub |-> [i \in 1..10 |-> 40 + i], kem_id |-> HPKE_KEM_ID_25519,
      ciphersuites |-> <<<<0, 1, 0, 1>>>>, maximum_name_length |-> 0, exts |-> <<>>],
     [version |-> ECH_DRAFT_09_VERSION, public_name |-> <<99, 100, 46, 101>>,
      pub |-> [i \in 1..12 |-> 60 + i], kem_id |-> HPKE_KEM_ID_P256,
      ciphersuites |-> <<<<0, 1, 0, 1>>, <<0, 3, 0, 3>>>>, maximum_name_length |-> 64,
      exts |-> <<[type |-> 5, val |-> <<1>>]>>],
     [version |-> 65288, opaque |-> [i \in 1..30 |-> 170]]}

MaxRecs == 3          \* records in one encoded list

RECURSIVE ConfigLists(_)
ConfigLists(n) ==
    IF n = 0 THEN {<<>>}
    ELSE ConfigLists(n - 1)
         \cup {Append(l, k) : l \in {x \in ConfigLists(n - 1) : Len(x) = n - 1},
                              k \in ConfigKinds}

\* the records of version 0xff09 in a list, in order
RECURSIVE KnownOf(_, _)
KnownOf(rs, k) ==
    IF k = 0 THEN <<>>
    ELSE KnownOf(rs, k - 1)
         \o (IF rs[k].version = ECH_DRAFT_09_VERSION THEN <<rs[k]>> ELSE <<>>)

\* what may follow the encoded list in the caller's buffer: nothing, or a
\* second encoded list, which the parser is to leave unconsumed
TailInputs == {<<>>, EncodeConfigs(<<CHOOSE k \in ConfigKinds : k.version = ECH_DRAFT_09_VERSION>>)}

InitCfg ==
    /\ \E rs \in ConfigLists(MaxRecs) \ {<<>>}, tail \in TailInputs :
           cfg = [CfgIdle EXCEPT !.pc = "encoded", !.rs = rs, !.tail = tail,
                                 !.binbuf = EncodeConfigs(rs) \o tail]
    /\ hpke = HpkeIdle
    /\ codec = CodecIdle
    /\ srv = SrvIdle
    /\ conc = ConcIdle
    /\ swap = SwapIdle
    /\ dup = DupIdle
    /\ fn = FnIdle

EchConfigsFromBinary ==
    /\ cfg.pc = "encoded"
    /\ \E r \in {ECHConfigs_from_binary(cfg.binbuf)} :
           cfg' = [cfg EXCEPT !.pc = "parsed", !.er = r]
    /\ UNCHANGED notCfg

NextCfg == EchConfigsFromBinary

\* C3: whatever the positions of the records of unknown version in the
\* encoded list, the last included, ECHConfigs_from_binary succeeds and
\* returns exactly the records of version 0xff09, in their order.
C3_UnknownSkipped ==
    (cfg.pc = "parsed" /\ \E i \in 1..Len(cfg.rs) : cfg.rs[i].version # ECH_DRAFT_09_VERSION)
        => (cfg.er.ok /\ cfg.er.recs = KnownOf(cfg.rs, Len(cfg.rs)))

(***************************************************************************)
(* ssl/ech.c : the ECH key pairs loaded into an SSL_CTX.  File names and   *)
(* private keys are numbered from 1; NULL is the null pointer.  A file is  *)
(* [exists, mtime, priv, pdata]: priv is the key its PEM private key block *)
(* decodes to (NULL when it does not decode), pdata the binary ECHConfigs  *)
(* of its ECHCONFIG block.                                                 *)
(***************************************************************************)
NULL == 0

ECH_KEYPAIR_ERROR == 0
ECH_KEYPAIR_NEW == 1
ECH_KEYPAIR_UNMODIFIED == 2
ECH_KEYPAIR_MODIFIED == 3

\* memset(newech,0,sizeof(SSL_ECH))
ZeroEch == [cfg |-> NULL, pemfname |-> NULL, loadtime |-> 0, keyshare |-> NULL]

\* the search loop with a file as old as the load taken for modified
RECURSIVE CheckFrom_le(_, _, _, _)
CheckFrom_le(ctx, pemfname, pemmod, ind) ==
    IF ind = ctx.nechs THEN [rv |-> ECH_KEYPAIR_NEW, index |-> -1]
    ELSE IF ctx.ech[ind + 1].pemfname = NULL
    THEN [rv |-> ECH_KEYPAIR_ERROR, index |-> -1]
    ELSE IF ctx.ech[ind + 1].pemfname = pemfname
    THEN IF ctx.ech[ind + 1].loadtime <= pemmod
         THEN [rv |-> ECH_KEYPAIR_MODIFIED, index |-> ind]
         ELSE [rv |-> ECH_KEYPAIR_UNMODIFIED, index |-> -1]
    ELSE CheckFrom_le(ctx, pemfname, pemmod, ind + 1)

\* the search loop of ech_check_filenames, from slot ind (counted from 0)
RECURSIVE CheckFrom(_, _, _, _)
CheckFrom(ctx, pemfname, pemmod, ind) ==
    IF ind = ctx.nechs THEN [rv |-> ECH_KEYPAIR_NEW, index |-> -1]
    ELSE IF ctx.ech[ind + 1].pemfname = NULL
    THEN [rv |-> ECH_KEYPAIR_ERROR, index |-> -1]
    ELSE IF ctx.ech[ind + 1].pemfname = pemfname
    THEN IF ctx.ech[ind + 1].loadtime < pemmod
         THEN [rv |-> ECH_KEYPAIR_MODIFIED, index |-> ind]
         ELSE [rv |-> ECH_KEYPAIR_UNMODIFIED, index |-> -1]
    ELSE CheckFrom(ctx, pemfname, pemmod, ind + 1)

ech_check_filenames(ctx, fs, pemfname) ==
    IF ctx.nechs = 0 THEN [rv |-> ECH_KEYPAIR_NEW, index |-> -1]
    ELSE IF ~fs[pemfname].exists THEN [rv |-> ECH_KEYPAIR_ERROR, index |-> -1]
    ELSE CheckFrom(ctx, pemfname, fs[pemfname].mtime, 0)

\* the decode loop of local_ech_add on a binary value (ech_guess_fmt falls
\* back to binary for a value that starts with a zero octet).  The loop
\* advances outp by er->encoded_len, which is the length of all it was
\* given: when octets are left over the next round reads beyond the value
\* (oob).
local_ech_add(ekval) ==
    IF Len(ekval) = 0 THEN [rv |-> 0, num_echs |-> 0, echs |-> <<>>, oob |-> FALSE]
    ELSE With(ECHConfigs_from_binary(ekval), LAMBDA er :
         IF ~er.ok THEN [rv |-> 0, num_echs |-> 0, echs |-> <<>>, oob |-> FALSE]
         ELSE IF er.leftover <= 0
         THEN [rv |-> 1, num_echs |-> 1, echs |-> <<[ZeroEch EXCEPT !.cfg = er]>>,
               oob |-> FALSE]
         ELSE [rv |-> 0, num_echs |-> 0, echs |-> <<>>, oob |-> TRUE])

\* ech_readpemfile; uninit says that the err: label read *sechs, which
\* the caller left uninitialised and nothing has assigned
ech_readpemfile(fs, now, pemfile) ==
    LET fail == [rv |-> 0, sechs |-> <<>>, uninit |-> TRUE]
    IN  IF ~fs[pemfile].exists THEN fail
        ELSE IF fs[pemfile].priv = NULL THEN fail
        ELSE IF Len(fs[pemfile].pdata) >= ECH_MAX_ECHCONFIG_LEN THEN fail
        ELSE With(local_ech_add(fs[pemfile].pdata), LAMBDA la :
             IF la.rv # 1 THEN fail
             ELSE [rv |-> 1,
                   sechs |-> [la.echs EXCEPT ![1].pemfname = pemfile,
                                             ![1].loadtime = now,
                                             ![1].keyshare = fs[pemfile].priv],
                   uninit |-> FALSE])

\* SSL_CTX_ech_server_enable: the context and the locals it ends with.
\* crashable marks the return after ech_readpemfile tested the
\* uninitialised pointer.
SSL_CTX_ech_server_enable(ctx, fs, now, pemfile) ==
    With(ech_check_filenames(ctx, fs, pemfile), LAMBDA chk :
    LET out(rv, c, crashable) ==
            [rv |-> rv, ctx |-> c, fnamestat |-> chk.rv, index |-> chk.index,
             crashable |-> crashable]
    IN  IF chk.rv = ECH_KEYPAIR_UNMODIFIED THEN out(1, ctx, FALSE)
        ELSE IF chk.rv = ECH_KEYPAIR_ERROR THEN out(0, ctx, FALSE)
        ELSE With(ech_readpemfile(fs, now, pemfile), LAMBDA rd :
        IF rd.rv # 1 THEN out(rd.rv, ctx, rd.uninit)
        ELSE IF rd.sechs[1].cfg.nrecs # 1 THEN out(0, ctx, FALSE)
        ELSE IF chk.rv = ECH_KEYPAIR_MODIFIED
        THEN IF chk.index < 0 \/ chk.index >= ctx.nechs THEN out(0, ctx, FALSE)
             ELSE out(1, [ctx EXCEPT !.ech[chk.index + 1] = rd.sechs[1]], FALSE)
        ELSE out(1, [ech |-> Append(ctx.ech, rd.sechs[1]), nechs |-> ctx.nechs + 1],
                 FALSE)))

\* SSL_CTX_ech_add
SSL_CTX_ech_add(ctx, ekval) ==
    With(local_ech_add(ekval), LAMBDA la :
    IF la.rv # 1 THEN [rv |-> 0, ctx |-> ctx, oob |-> la.oob]
    ELSE [rv |-> 1, ctx |-> [ech |-> la.echs, nechs |-> la.num_echs], oob |-> FALSE])

(***************************************************************************)
(* SpecCtx: one server context, the files it is pointed at, the clock.     *)
(* SpecCtxAdd: the same with SSL_CTX_ech_add called on the context too.    *)
(***************************************************************************)
MaxTime == 2         \* seconds the clock runs to
MaxKeys == 3         \* private keys ever written

\* what a PEM file may hold: a key and one ECHConfig, a key and two, a
\* private key block that does not decode, a key and one record of a
\* version the parser does not know
PemKinds ==
    LET k == CHOOSE c \in ConfigKinds : c.version = ECH_DRAFT_09_VERSION
        u == CHOOSE c \in ConfigKinds : c.version # ECH_DRAFT_09_VERSION
    IN  {[key |-> TRUE, pdata |-> EncodeConfigs(<<k>>), nrecs |-> 1],
         [key |-> TRUE, pdata |-> EncodeConfigs(<<k, k>>), nrecs |-> 2],
         [key |-> FALSE, pdata |-> EncodeConfigs(<<k>>), nrecs |-> 1],
         [key |-> TRUE, pdata |-> EncodeConfigs(<<u>>), nrecs |-> 0]}

\* what SSL_CTX_ech_add may be given: one list, two catenated, no list
AddInputs ==
    LET k == CHOOSE c \in ConfigKinds : c.version = ECH_DRAFT_09_VERSION
    IN  {EncodeConfigs(<<k>>), EncodeConfigs(<<k>>) \o EncodeConfigs(<<k>>), <<0, 1, 2>>}

NoCall == [pemfile |-> NULL, fnamestat |-> ECH_KEYPAIR_ERROR, index |-> -1, rv |-> 0]

InitCtx ==
    /\ srv = [SrvIdle EXCEPT !.pc = "running", !.now = 1]
    /\ hpke = HpkeIdle
    /\ codec = CodecIdle
    /\ cfg = CfgIdle
    /\ conc = ConcIdle
    /\ swap = SwapIdle
    /\ dup = DupIdle
    /\ fn = FnIdle

\* the file is (re)written: a new key pair, modification time now
WriteFile(f) ==
    /\ srv.pc = "running"
    /\ srv.nkeys < MaxKeys
    /\ \E k \in PemKinds :
           srv' = [srv EXCEPT !.nkeys = @ + 1,
                              !.fs[f] = [exists |-> TRUE, mtime |-> srv.now,
                                         priv |-> IF k.key THEN srv.nkeys + 1 ELSE NULL,
                                         pdata |-> k.pdata, nrecs |-> k.nrecs]]
    /\ UNCHANGED notSrv

Tick ==
    /\ srv.pc = "running"
    /\ srv.now < MaxTime
    /\ srv' = [srv EXCEPT !.now = @ + 1]
    /\ UNCHANGED notSrv

ServerEnable(f) ==
    /\ srv.pc = "running"
    /\ \E r \in {SSL_CTX_ech_server_enable(srv.ctx, srv.fs, srv.now, f)} :
       \E crash \in IF r.crashable THEN BOOLEAN ELSE {FALSE} :
           srv' = [srv EXCEPT !.ctx = r.ctx,
                              !.call = [pemfile |-> f, fnamestat |-> r.fnamestat,
                                        index |-> r.index, rv |-> r.rv],
                              !.pc = IF crash THEN "crashed" ELSE @]
    /\ UNCHANGED notSrv

CtxEchAdd ==
    /\ srv.pc = "running"
    /\ \E ekval \in AddInputs :
       \E r \in {SSL_CTX_ech_add(srv.ctx, ekval)} :
       \E crash \in IF r.oob THEN BOOLEAN ELSE {FALSE} :
           srv' = [srv EXCEPT !.ctx = r.ctx, !.call = NoCall,
                              !.pc = IF crash THEN "crashed" ELSE @]
    /\ UNCHANGED notSrv

NextCtx ==
    \/ \E f \in Files : WriteFile(f)
    \/ Tick
    \/ \E f \in Files : ServerEnable(f)

NextCtxAdd ==
    \/ NextCtx
    \/ CtxEchAdd

\* what a successful load of file f makes of it now
Loaded(f) ==
    [cfg |-> ECHConfigs_from_binary(srv.fs[f].pdata), pemfname |-> f,
     loadtime |-> srv.now, keyshare |-> srv.fs[f].priv]

\* the file is there, its private key decodes, its ECHCONFIG block is one
\* list of exactly one record
Loads(f) ==
    /\ srv.fs[f].exists
    /\ srv.fs[f].priv # NULL
    /\ Loaded(f).cfg.ok
    /\ Loaded(f).cfg.leftover = 0
    /\ Loaded(f).cfg.nrecs = 1

SlotsOf(f) == {i \in 1..srv.ctx.nechs : srv.ctx.ech[i].pemfname = f}

C4_Post(f) ==
    /\ (SlotsOf(f) = {} /\ Loads(f))
           => /\ srv'.call.rv = 1
              /\ srv'.call.fnamestat = ECH_KEYPAIR_NEW
              /\ srv'.ctx.nechs = srv.ctx.nechs + 1
              /\ srv'.ctx.ech = Append(srv.ctx.ech, Loaded(f))
    /\ \A i \in SlotsOf(f) :
           (srv.fs[f].exists /\ ~(srv.fs[f].mtime > srv.ctx.ech[i].loadtime))
               => /\ srv'.call.rv = 1
                  /\ srv'.call.fnamestat = ECH_KEYPAIR_UNMODIFIED
                  /\ srv'.ctx = srv.ctx
    /\ \A i \in SlotsOf(f) :
           (srv.fs[f].mtime > srv.ctx.ech[i].loadtime /\ Loads(f))
               => /\ srv'.call.rv = 1
                  /\ srv'.call.fnamestat = ECH_KEYPAIR_MODIFIED
                  /\ srv'.ctx.nechs = srv.ctx.nechs
                  /\ srv'.ctx.ech = [srv.ctx.ech EXCEPT ![i] = Loaded(f)]

\* C4: in any sequence of SSL_CTX_ech_server_enable calls on one context, a
\* call whose file loads and whose name is not in the list appends exactly
\* one slot; a call whose name is in the list with a modification time not
\* later than the slot's loadtime succeeds and changes nothing; a call
\* whose name is in the list with a later modification time and whose file
\* loads replaces that slot in place, count and other slots unchanged.
C4_Outcomes == [][\A f \in Files : ServerEnable(f) => C4_Post(f)]_vars

C4_Witness ==
    /\ srv.call.rv = 1
    /\ srv.call.fnamestat = ECH_KEYPAIR_MODIFIED
    /\ srv.call.index = 0
    /\ srv.ctx.nechs = 2
    /\ srv.ctx.ech[1].pemfname = srv.call.pemfile
    /\ srv.ctx.ech[1].loadtime = srv.now
    /\ srv.ctx.ech[1].keyshare = srv.fs[srv.call.pemfile].priv
    /\ srv.ctx.ech[2].keyshare # NULL

\* C5: whatever SSL_CTX_ech_server_enable and SSL_CTX_ech_add calls were
\* made on the context, every one of its nechs slots holds a private key
\* and the name of the file it came from, so that ech_check_filenames does
\* not answer ERROR on account of a slot.
C5_EverySlotKeyed ==
    \A i \in 1..srv.ctx.nechs :
        /\ srv.ctx.ech[i].keyshare # NULL
        /\ srv.ctx.ech[i].pemfname # NULL

(***************************************************************************)
(* SpecConc: two threads call SSL_CTX_ech_server_enable on one context,    *)
(* one statement of the function at a time.  The slot array lives in a     *)
(* heap block; ctx.ech is the number of the block (NULL for none) and a    *)
(* block is [live, slots].  A statement that uses a freed block, or writes *)
(* beyond a block, either crashes the process or goes on with the freed    *)
(* memory as it was left; a write beyond the block is then lost.           *)
(***************************************************************************)
Threads == {1, 2}

ThrIdle ==
    [pc |-> "start", pemfile |-> NULL, fnamestat |-> ECH_KEYPAIR_ERROR, index |-> -1,
     sechs |-> ZeroEch, ptr |-> NULL, tmp |-> 0, rv |-> 0]

\* a block of n slots that drops what the old block held
Resize_drop(slots, n) == [i \in 1..n |-> ZeroEch]

\* OPENSSL_realloc: a block of n slots that starts as the old one did
Resize(slots, n) == [i \in 1..n |-> IF i <= Len(slots) THEN slots[i] ELSE ZeroEch]

\* the context as the statements of one thread read it
CtxView ==
    [ech |-> IF conc.ctx.ech = NULL THEN <<>> ELSE conc.heap[conc.ctx.ech].slots,
     nechs |-> conc.ctx.nechs]

\* a statement of thread t runs while the other thread is inside its call
Overlap(t) ==
    conc.overlapped \/ \E u \in Threads \ {t} : conc.thr[u].pc \notin {"start", "done"}

\* outcomes of a statement that may have used memory it must not: it
\* crashes, or it has the effect next
Outcomes(bad, next) ==
    {next} \cup (IF bad THEN {[next EXCEPT !.pc = "crashed"]} ELSE {})

Dangling(b) == b # NULL /\ ~conc.heap[b].live

\* the PEM files of the run: file 1 was written at 1, and perhaps again at
\* 2; file 2 was written at 1; every write brought a new key
ConcFiles(m1) ==
    LET k == CHOOSE c \in ConfigKinds : c.version = ECH_DRAFT_09_VERSION
    IN  [f \in Files |->
            [exists |-> TRUE, mtime |-> IF f = 1 THEN m1 ELSE 1,
             priv |-> IF f = 1 THEN 2 * m1 - 1 ELSE 2,
             pdata |-> EncodeConfigs(<<k>>)]]

\* the context at the start: nothing loaded, or file 1 loaded at time 1
InitConc ==
    /\ \E m1 \in 1..2, loaded \in BOOLEAN, f1 \in Files, f2 \in Files :
           LET fs0 == ConcFiles(1)
               c1 == SSL_CTX_ech_server_enable(SrvIdle.ctx, fs0, 1, 1).ctx
               c0 == IF loaded THEN c1 ELSE SrvIdle.ctx
           IN  conc = [pc |-> "running",
                       ctx |-> [ech |-> IF loaded THEN 1 ELSE NULL, nechs |-> c0.nechs],
                       heap |-> IF loaded THEN <<[live |-> TRUE, slots |-> c0.ech]>>
                                ELSE <<>>,
                       start |-> c0,
                       fs |-> ConcFiles(m1), now |-> 2,
                       thr |-> [t \in Threads |->
                                   [ThrIdle EXCEPT !.pemfile = IF t = 1 THEN f1 ELSE f2]],
                       overlapped |-> FALSE]
    /\ hpke = HpkeIdle
    /\ codec = CodecIdle
    /\ cfg = CfgIdle
    /\ srv = SrvIdle
    /\ swap = SwapIdle
    /\ dup = DupIdle
    /\ fn = FnIdle

\* ech_check_filenames, then ech_readpemfile and the nrecs test, which
\* touch nothing shared
CallCheck(t) ==
    /\ conc.pc = "running"
    /\ conc.thr[t].pc = "start"
    /\ \E chk \in {ech_check_filenames(CtxView, conc.fs, conc.thr[t].pemfile)} :
       \E rd \in {ech_readpemfile(conc.fs, conc.now, conc.thr[t].pemfile)} :
       \E next \in Outcomes(Dangling(conc.ctx.ech),
              [conc EXCEPT !.overlapped = Overlap(t),
                           !.thr[t].fnamestat = chk.rv,
                           !.thr[t].index = chk.index,
                           !.thr[t].sechs =
                               IF chk.rv \in {ECH_KEYPAIR_NEW, ECH_KEYPAIR_MODIFIED}
                                  /\ rd.rv = 1
                               THEN rd.sechs[1] ELSE ZeroEch,
                           !.thr[t].rv = IF chk.rv = ECH_KEYPAIR_UNMODIFIED THEN 1 ELSE 0,
                           !.thr[t].pc =
                               IF chk.rv \in {ECH_KEYPAIR_UNMODIFIED, ECH_KEYPAIR_ERROR}
                               THEN "done"
                               ELSE IF rd.rv # 1 THEN "done"
                               ELSE IF rd.sechs[1].cfg.nrecs # 1 THEN "done"
                               ELSE IF chk.rv = ECH_KEYPAIR_MODIFIED THEN "mod_free"
                               ELSE "realloc"]) :
           conc' = next
    /\ UNCHANGED notConc

\* the index test, curr_ec=&ctx->ext.ech[index], SSL_ECH_free(curr_ec),
\* memset(curr_ec,0,...)
ModFree(t) ==
    /\ conc.pc = "running"
    /\ conc.thr[t].pc = "mod_free"
    /\ LET b == conc.ctx.ech
           i == conc.thr[t].index
       IN  IF i < 0 \/ i >= conc.ctx.nechs
           THEN conc' = [conc EXCEPT !.overlapped = Overlap(t), !.thr[t].rv = 0,
                                     !.thr[t].pc = "done"]
           ELSE \E next \in Outcomes(Dangling(b) \/ i >= Len(conc.heap[b].slots),
                      [conc EXCEPT !.overlapped = Overlap(t),
                                   !.heap[b].slots =
                                       IF i < Len(@) THEN [@ EXCEPT ![i + 1] = ZeroEch]
                                       ELSE @,
                                   !.thr[t].ptr = b,
                                   !.thr[t].pc = "mod_copy"]) :
                    conc' = next
    /\ UNCHANGED notConc

\* *curr_ec=*sechs; return(1)
ModCopy(t) ==
    /\ conc.pc = "running"
    /\ conc.thr[t].pc = "mod_copy"
    /\ LET b == conc.thr[t].ptr
           i == conc.thr[t].index
       IN  \E next \in Outcomes(Dangling(b),
                  [conc EXCEPT !.overlapped = Overlap(t),
                               !.heap[b].slots[i + 1] = conc.thr[t].sechs,
                               !.thr[t].rv = 1,
                               !.thr[t].pc = "done"]) :
               conc' = next
    /\ UNCHANGED notConc

\* re_ec=OPENSSL_realloc(ctx->ext.ech,(ctx->ext.nechs+1)*sizeof(SSL_ECH)):
\* the block grows where it is or moves, the old block then being freed
Realloc(t) ==
    /\ conc.pc = "running"
    /\ conc.thr[t].pc = "realloc"
    /\ LET b == conc.ctx.ech
           n == conc.ctx.nechs + 1
           old == IF b = NULL THEN <<>> ELSE conc.heap[b].slots
           moved == [conc EXCEPT !.overlapped = Overlap(t),
                                 !.heap = Append(IF b = NULL THEN @
                                                 ELSE [@ EXCEPT ![b].live = FALSE],
                                                 [live |-> TRUE, slots |-> Resize(old, n)]),
                                 !.thr[t].ptr = Len(conc.heap) + 1,
                                 !.thr[t].pc = "store_ech"]
           inplace == [conc EXCEPT !.overlapped = Overlap(t),
                                   !.heap[b].slots = Resize(old, n),
                                   !.thr[t].ptr = b,
                                   !.thr[t].pc = "store_ech"]
       IN  \/ \E next \in Outcomes(Dangling(b), moved) : conc' = next
           \/ /\ b # NULL
              /\ conc.heap[b].live
              /\ conc' = inplace
    /\ UNCHANGED notConc

\* ctx->ext.ech=re_ec
StoreEch(t) ==
    /\ conc.pc = "running"
    /\ conc.thr[t].pc = "store_ech"
    /\ conc' = [conc EXCEPT !.overlapped = Overlap(t),
                            !.ctx.ech = conc.thr[t].ptr,
                            !.thr[t].pc = "write_slot"]
    /\ UNCHANGED notConc

\* new_ec=&ctx->ext.ech[ctx->ext.nechs]; memset(new_ec,0,...); *new_ec=*sechs
WriteSlot(t) ==
    /\ conc.pc = "running"
    /\ conc.thr[t].pc = "write_slot"
    /\ LET b == conc.ctx.ech
           i == conc.ctx.nechs
       IN  \E next \in Outcomes(Dangling(b) \/ i >= Len(conc.heap[b].slots),
                  [conc EXCEPT !.overlapped = Overlap(t),
                               !.heap[b].slots =
                                   IF i < Len(@) THEN [@ EXCEPT ![i + 1] = conc.thr[t].sechs]
                                   ELSE @,
                               !.thr[t].pc = "inc_load"]) :
               conc' = next
    /\ UNCHANGED notConc

\* ctx->ext.nechs++ : the load
IncLoad(t) ==
    /\ conc.pc = "running"
    /\ conc.thr[t].pc = "inc_load"
    /\ conc' = [conc EXCEPT !.overlapped = Overlap(t),
                            !.thr[t].tmp = conc.ctx.nechs,
                            !.thr[t].pc = "inc_store"]
    /\ UNCHANGED notConc

\* ctx->ext.nechs++ : the store; return(1)
IncStore(t) ==
    /\ conc.pc = "running"
    /\ conc.thr[t].pc = "inc_store"
    /\ conc' = [conc EXCEPT !.overlapped = Overlap(t),
                            !.ctx.nechs = conc.thr[t].tmp + 1,
                            !.thr[t].rv = 1,
                            !.thr[t].pc = "done"]
    /\ UNCHANGED notConc

NextConc ==
    \E t \in Threads :
        \/ CallCheck(t)
        \/ ModFree(t)
        \/ ModCopy(t)
        \/ Realloc(t)
        \/ StoreEch(t)
        \/ WriteSlot(t)
        \/ IncLoad(t)
        \/ IncStore(t)

\* the context after the call of thread t and then the call of thread u,
\* each run from its first statement to its return
Serial(t, u) ==
    SSL_CTX_ech_server_enable(
        SSL_CTX_ech_server_enable(conc.start, conc.fs, conc.now,
                                  conc.thr[t].pemfile).ctx,
        conc.fs, conc.now, conc.thr[u].pemfile).ctx

BothReturned == conc.pc = "running" /\ \A t \in Threads : conc.thr[t].pc = "done"

\* the list is the list of one of the two serial orders, the count is the
\* number of slots of the array and every slot has a key
AsSerial ==
    /\ ~Dangling(conc.ctx.ech)
    /\ conc.ctx.nechs = Len(CtxView.ech)
    /\ \A i \in 1..Len(CtxView.ech) : CtxView.ech[i].keyshare # NULL
    /\ CtxView \in {Serial(1, 2), Serial(2, 1)}

\* C6 (as stated): when two SSL_CTX_ech_server_enable calls on one context
\* run interleaved statement by statement and both have returned, the list
\* is that of one of the two serial orders, the count is the number of
\* populated slots and every slot has a valid private key.
C6_Interleaved == BothReturned => AsSerial

\* C6 (amended): the same holds when the two calls did not overlap, each
\* having returned before the other made its first statement.
C6_Serialised == (BothReturned /\ ~conc.overlapped) => AsSerial

C6_Witness ==
    /\ BothReturned
    /\ ~conc.overlapped
    /\ conc.start.nechs = 1
    /\ conc.ctx.nechs = 2
    /\ conc.thr[1].fnamestat = ECH_KEYPAIR_MODIFIED
    /\ conc.thr[2].fnamestat = ECH_KEYPAIR_NEW
    /\ CtxView.ech[1].keyshare = 3
    /\ CtxView.ech[2].keyshare = 2

(***************************************************************************)
(* ssl/ech.c : ech_process_inner_if_present and ech_swaperoo.  SSL objects *)
(* are numbered: 1 is the object the caller's handle s points at, 2 the    *)
(* one SSL_new returns; a pointer to an SSL is its number, or NULL.  Of an *)
(* SSL the model keeps the ECH fields, the handshake buffer, and two       *)
(* tokens: bio for wbio, rbio, rlayer, init_buf, init_msg, init_off,       *)
(* init_num, debug_cb and debug_arg, which are always copied together, and *)
(* statem.                                                                 *)
(***************************************************************************)
\* SSL_new: a zeroed object with its own state machine
ZeroSSL ==
    [ch_depth |-> 0, ech_attempted |-> 0, ech_done |-> 0, ech_success |-> 0,
     inner_s |-> NULL, outer_s |-> NULL, encoded_innerch |-> <<>>, innerch |-> <<>>,
     tmp_session_id |-> <<>>, oexts |-> <<>>, handshake_buffer |-> <<>>,
     bio |-> 0, statem |-> 0,
     ech |-> NULL, nechs |-> 0, ech_grease |-> 0, hostname |-> NULL,
     ech_public_name |-> NULL]

\* SSL_new(ctx), of ssl_lib.c: a zeroed session that holds a copy of the
\* context's ECH list when the context has one
SSL_new(ctx_nechs) ==
    [ZeroSSL EXCEPT !.ech = IF ctx_nechs > 0 THEN 1 ELSE NULL, !.nechs = ctx_nechs,
                    !.statem = 2]

\* the test of final_server_name with ech_success left as it stands
server_name_recheck_keep(objs, s, sni_ok) ==
    IF ~sni_ok THEN [rv |-> 0, objs |-> objs] ELSE [rv |-> 1, objs |-> objs]

\* ech_swaperoo: if (final_server_name(s,0,1)!=1) { clear ech_success on
\* both; return(0); } return(1);
server_name_recheck(objs, s, sni_ok) ==
    IF ~sni_ok
    THEN [rv |-> 0,
          objs |-> [objs EXCEPT ![objs[s].outer_s].ech_success = 0,
                                ![s].ech_success = 0]]
    ELSE [rv |-> 1, objs |-> objs]

\* ech_swaperoo: the new transcript made of the outer's handshake buffer
\* and the innerch of tmp_outer
new_buf(curr_buf, innerch) ==
    IF Len(curr_buf) > 0 /\ curr_buf[1] = SSL3_MT_CLIENT_HELLO
    THEN With(1 + At(curr_buf, 1) * 256 * 256 + At(curr_buf, 2) * 256 + At(curr_buf, 3),
         LAMBDA outer_chlen :
         IF outer_chlen > Len(curr_buf) THEN [ok |-> FALSE, buf |-> <<>>]
         ELSE IF Len(curr_buf) - outer_chlen > 0
         THEN [ok |-> TRUE,
               buf |-> innerch \o SubSeq(curr_buf, outer_chlen + 1, Len(curr_buf))]
         ELSE [ok |-> TRUE, buf |-> innerch])
    ELSE [ok |-> TRUE, buf |-> innerch]

\* ech_swaperoo(s); mac_ok is what ssl3_init_finished_mac and
\* ssl3_finish_mac return, sni_ok what final_server_name returns
ech_swaperoo(objs, s, env) ==
    IF s = NULL THEN [rv |-> 0, objs |-> objs]
    ELSE IF objs[s].inner_s = NULL THEN [rv |-> 0, objs |-> objs]
    ELSE IF objs[objs[s].inner_s].outer_s = NULL THEN [rv |-> 0, objs |-> objs]
    ELSE IF objs[objs[s].inner_s].outer_s # s THEN [rv |-> 0, objs |-> objs]
    ELSE
    With(objs[s].inner_s, LAMBDA inp :
    With(objs[s], LAMBDA tmp_outer :
    With(objs[inp], LAMBDA tmp_inner :
    With([objs EXCEPT ![s] = [tmp_inner EXCEPT !.outer_s = inp, !.inner_s = NULL,
                                               !.bio = tmp_outer.bio,
                                               !.statem = tmp_outer.statem],
                      ![inp] = [tmp_outer EXCEPT !.inner_s = s, !.outer_s = NULL]],
         LAMBDA swapped :
    With(new_buf(tmp_outer.handshake_buffer, tmp_outer.innerch), LAMBDA nb :
    IF ~nb.ok THEN [rv |-> 0, objs |-> swapped]
    ELSE IF ~env.mac_ok THEN [rv |-> 0, objs |-> swapped]
    ELSE server_name_recheck(
             [swapped EXCEPT ![s].handshake_buffer = nb.buf,
                             ![inp].ech_success = 1,
                             ![s].ech_success = 1],
             s, env.sni_ok))))))

\* ech_process_inner_if_present(s) with s object 1; inner_ok is whether
\* tls_process_client_hello and tls_post_process_client_hello accept the
\* decoded inner, inner_name the host name they find in it and store as
\* new_se->ext.hostname, ctx_nechs the nechs of s->ctx.  swaprv is what
\* ech_swaperoo returned, -1 when it was not called.
ech_process_inner_if_present(objs, env) ==
    IF ~(objs[1].ch_depth = 0 /\ objs[1].ech_attempted = 1
         /\ objs[1].encoded_innerch # <<>>)
    THEN [rv |-> 1, objs |-> objs, swaprv |-> -1]
    ELSE
    With(ech_decode_inner(objs[1].encoded_innerch, objs[1].tmp_session_id,
                          objs[1].oexts), LAMBDA dec :
    With([objs EXCEPT ![2] = [SSL_new(env.ctx_nechs) EXCEPT
                                 !.ech_attempted = 1, !.ch_depth = 1,
                                 !.outer_s = 1, !.inner_s = NULL,
                                 !.bio = objs[1].bio,
                                 !.nechs = IF objs[1].nechs # 0 /\ env.ctx_nechs = 0
                                           THEN objs[1].nechs ELSE @,
                                 !.ech = IF objs[1].nechs # 0 /\ env.ctx_nechs = 0
                                         THEN 1 ELSE @,
                                 !.innerch = dec.innerch]],
         LAMBDA made :
    IF dec.rv # 1 THEN [rv |-> 0, objs |-> made, swaprv |-> -1]
    ELSE IF ~env.inner_ok THEN [rv |-> 0, objs |-> made, swaprv |-> -1]
    ELSE With(ech_swaperoo([made EXCEPT ![1].inner_s = 2,
                                        ![2].hostname = env.inner_name], 1, env),
              LAMBDA sw :
         [rv |-> IF sw.rv # 1 THEN 0 ELSE 1, objs |-> sw.objs, swaprv |-> sw.rv])))

(***************************************************************************)
(* SpecSwap: a server session that has received the outer ClientHello, at  *)
(* the call of ech_process_inner_if_present.                               *)
(***************************************************************************)
\* the client's sessions the ClientHellos come from: extensions
\* max_fragment_length, ec_point_formats, supported_versions, of which
\* none or the first two are compressed
SwapClients ==
    {[client_version |-> 771,
      client_random |-> [i \in 1..SSL3_RANDOM_SIZE |-> i],
      ciphers |-> <<19, 1, 19, 2>>,
      raws |-> [i \in 1..Len(ExtTable) |->
                  [type |-> ExtTable[i].type, data |-> ExtTable[i].data,
                   present |-> i \in {1, 2, 5}]],
      outer_only |-> PickTypes(comp, Len(ExtTable))] : comp \in {{}, {1, 2}}}

\* the outer ClientHello message as it stands at the head of the handshake
\* buffer
OuterClientHello(c, session_id) ==
    LET body == U16(c.client_version) \o c.client_random
                \o <<Len(session_id)>> \o session_id
                \o U16(Len(c.ciphers)) \o c.ciphers
                \o <<1, 0>>
                \o U16(Len(OuterExtensions(c))) \o OuterExtensions(c)
    IN  <<SSL3_MT_CLIENT_HELLO>> \o U24(Len(body)) \o body

\* what the handshake buffer holds: the outer ClientHello, the same with a
\* message after it, nothing, another message, a ClientHello cut short
HandshakeBuffers(ch) ==
    {ch, ch \o <<2, 0, 0, 2, 3, 3>>, <<>>, <<2, 0, 0, 2, 3, 3>>, SubSeq(ch, 1, 10)}

ECH_GREASE_UNKNOWN == -1
ECH_NOT_GREASE == 0
ECH_IS_GREASE == 1

\* the values of ech.h that SSL_ech_get_status returns
SSL_ECH_STATUS_BAD_CALL == "BAD_CALL"
SSL_ECH_STATUS_NOT_TRIED == "NOT_TRIED"
SSL_ECH_STATUS_GREASE == "GREASE"
SSL_ECH_STATUS_FAILED == "FAILED"
SSL_ECH_STATUS_BAD_NAME == "BAD_NAME"
SSL_ECH_STATUS_SUCCESS == "SUCCESS"

\* the value SSL_ech_get_status returns for session o; vr_ok is whether
\* SSL_get_verify_result(s) is X509_V_OK
StatusOf(o, vr_ok) ==
    IF o.ech # NULL /\ o.ech_attempted = 1
    THEN IF o.ech_success = 1
         THEN IF vr_ok THEN SSL_ECH_STATUS_SUCCESS ELSE SSL_ECH_STATUS_BAD_NAME
         ELSE SSL_ECH_STATUS_FAILED
    ELSE IF o.ech_grease = ECH_IS_GREASE THEN SSL_ECH_STATUS_GREASE
    ELSE SSL_ECH_STATUS_NOT_TRIED

\* SSL_ech_get_status with inner_sni and outer_sni swapped in the report
SSL_ech_get_status_crossed(objs, s, args_ok, vr_ok) ==
    IF s = NULL \/ ~args_ok
    THEN [rv |-> SSL_ECH_STATUS_BAD_CALL, inner_sni |-> NULL, outer_sni |-> NULL]
    ELSE
    With(IF objs[s].inner_s # NULL THEN objs[objs[s].inner_s].hostname
         ELSE objs[s].hostname, LAMBDA sinner :
    With(IF objs[s].outer_s # NULL THEN objs[objs[s].outer_s].hostname
         ELSE objs[s].hostname, LAMBDA souter :
    IF objs[s].ech # NULL /\ objs[s].ech_attempted = 1
    THEN [rv |-> StatusOf(objs[s], vr_ok),
          inner_sni |-> IF souter # NULL THEN souter ELSE objs[s].ech_public_name,
          outer_sni |-> sinner]
    ELSE [rv |-> StatusOf(objs[s], vr_ok), inner_sni |-> NULL, outer_sni |-> NULL]))

\* SSL_ech_get_status(s, &inner_sni, &outer_sni); args_ok is whether both
\* pointer arguments are non-null
SSL_ech_get_status(objs, s, args_ok, vr_ok) ==
    IF s = NULL \/ ~args_ok
    THEN [rv |-> SSL_ECH_STATUS_BAD_CALL, inner_sni |-> NULL, outer_sni |-> NULL]
    ELSE
    With(IF objs[s].inner_s # NULL THEN objs[objs[s].inner_s].hostname
         ELSE objs[s].hostname, LAMBDA sinner :
    With(IF objs[s].outer_s # NULL THEN objs[objs[s].outer_s].hostname
         ELSE objs[s].hostname, LAMBDA souter :
    IF objs[s].ech # NULL /\ objs[s].ech_attempted = 1
    THEN [rv |-> StatusOf(objs[s], vr_ok),
          inner_sni |-> sinner,
          outer_sni |-> IF souter # NULL THEN souter ELSE objs[s].ech_public_name]
    ELSE [rv |-> StatusOf(objs[s], vr_ok), inner_sni |-> NULL, outer_sni |-> NULL]))

\* the host names of the model: outer is carried by the outer ClientHello,
\* inner by the inner one, public by the ECHConfig
HostNames == [outer |-> 1, inner |-> 2, public |-> 3]

\* the ECH lists of the connection and of its context: none, the context's
\* list copied by SSL_new, or a list set on the connection only
EchLists == {<<0, 0>>, <<1, 1>>, <<1, 0>>}

InitSwap ==
    /\ \E c \in SwapClients, session_id \in {<<>>, <<7>>}, attempted \in {0, 1},
          depth \in {0, 1}, decrypted \in BOOLEAN,
          sni_ok \in BOOLEAN, mac_ok \in BOOLEAN, inner_ok \in BOOLEAN,
          lists \in EchLists, outer_name \in {NULL, HostNames.outer},
          vr_ok \in BOOLEAN, grease \in {ECH_GREASE_UNKNOWN, ECH_NOT_GREASE, ECH_IS_GREASE} :
       \E hb \in HandshakeBuffers(OuterClientHello(c, session_id)) :
        /\ decrypted => (grease = ECH_NOT_GREASE /\ lists[1] > 0)
        /\ ~decrypted => grease # ECH_NOT_GREASE
        /\ swap = [pc |-> "received",
                   objs |-> <<[ZeroSSL EXCEPT !.ech_attempted = attempted,
                                              !.ech = IF lists[1] > 0 THEN 1 ELSE NULL,
                                              !.nechs = lists[1],
                                              !.ech_grease = grease,
                                              !.hostname = outer_name,
                                              !.ech_public_name = HostNames.public,
                                              !.ch_depth = depth,
                                              !.encoded_innerch =
                                                  IF decrypted THEN ech_encode_inner(c)
                                                  ELSE <<>>,
                                              !.tmp_session_id = session_id,
                                              !.oexts = OuterExtensions(c),
                                              !.handshake_buffer = hb,
                                              !.bio = 1, !.statem = 1],
                              ZeroSSL>>,
                   env |-> [sni_ok |-> sni_ok, mac_ok |-> mac_ok, inner_ok |-> inner_ok,
                            ctx_nechs |-> lists[2], inner_name |-> HostNames.inner, outer_name |-> outer_name,
                            vr_ok |-> vr_ok],
                   rv |-> 0, swaprv |-> -1,
                   status |-> [rv |-> SSL_ECH_STATUS_NOT_TRIED, inner_sni |-> NULL,
                               outer_sni |-> NULL]]
    /\ hpke = HpkeIdle
    /\ codec = CodecIdle
    /\ cfg = CfgIdle
    /\ srv = SrvIdle
    /\ conc = ConcIdle
    /\ dup = DupIdle
    /\ fn = FnIdle

ProcessInnerIfPresent ==
    /\ swap.pc = "received"
    /\ \E r \in {ech_process_inner_if_present(swap.objs, swap.env)} :
           swap' = [swap EXCEPT !.pc = "returned", !.objs = r.objs, !.rv = r.rv,
                                !.swaprv = r.swaprv]
    /\ UNCHANGED notSwap

\* the application asks for the status of the session it holds
EchGetStatus ==
    /\ swap.pc = "returned"
    /\ \E r \in {SSL_ech_get_status(swap.objs, 1, TRUE, swap.env.vr_ok)} :
           swap' = [swap EXCEPT !.pc = "reported", !.status = r]
    /\ UNCHANGED notSwap

NextSwap == ProcessInnerIfPresent \/ EchGetStatus

\* C7: when ech_swaperoo has returned, ech_success is the same on the
\* current session and on the other one and is the value returned: 1 on
\* both when it returned 1, 0 on both when it returned 0, the rejection of
\* the inner name by the server-name callback included.
C7_SuccessAgrees ==
    (swap.pc = "returned" /\ swap.swaprv # -1)
        => /\ swap.objs[1].ech_success = swap.swaprv
           /\ swap.objs[2].ech_success = swap.swaprv

C7_Witness ==
    /\ swap.pc = "returned"
    /\ swap.swaprv = 0
    /\ ~swap.env.sni_ok
    /\ swap.env.mac_ok
    /\ swap.objs[1].outer_s = 2
    /\ swap.objs[1].handshake_buffer # <<>>
    /\ swap.objs[1].ech_success = 0
    /\ swap.objs[2].ech_success = 0

\* C8: after ech_process_inner_if_present has swapped successfully, the
\* current session and the other one both have ech_attempted and ech_done
\* set.
C8_AttemptedAndDone ==
    (swap.pc = "returned" /\ swap.swaprv = 1)
        => \A o \in {1, 2} : /\ swap.objs[o].ech_attempted = 1
                             /\ swap.objs[o].ech_done = 1

\* the SSL objects object o points at through inner_s or outer_s
LinksOf(o) == {swap.objs[o].inner_s, swap.objs[o].outer_s} \ {NULL}

\* C9: after a successful swap the object behind the caller's handle
\* carries the inner's state, the other object is pointed at by the
\* current one's outer_s and by nothing else, the current one's inner_s is
\* null, and following inner_s and outer_s links never leads from an
\* object back to itself.
C9_TwoNodeChain ==
    (swap.pc = "returned" /\ swap.swaprv = 1)
        => /\ swap.objs[1].ch_depth = 1
           /\ swap.objs[1].outer_s = 2
           /\ swap.objs[1].inner_s = NULL
           /\ 2 \notin LinksOf(2)
           /\ \A o \in {1, 2} : o \notin LinksOf(o)
           /\ \A o \in {1, 2} : \A q \in LinksOf(o) : o \notin LinksOf(q)

\* the handshake buffer of the outer starts with a whole ClientHello
\* message: type, 3-octet length L, L octets
HeadIsClientHello(buf) ==
    /\ Len(buf) >= 4
    /\ buf[1] = SSL3_MT_CLIENT_HELLO
    /\ Len(buf) >= 4 + (At(buf, 1) * 65536 + At(buf, 2) * 256 + At(buf, 3))

\* C10: when the outer's handshake buffer starts with the outer
\* ClientHello message of 4+L octets, what ech_swaperoo feeds to the
\* reinitialised transcript is the reconstructed inner ClientHello followed
\* by the octets of the old buffer after those 4+L.
C10_TranscriptSplice ==
    (/\ swap.pc = "returned"
     /\ swap.swaprv # -1
     /\ swap.env.mac_ok
     /\ HeadIsClientHello(swap.objs[2].handshake_buffer))
        => LET old == swap.objs[2].handshake_buffer
               L == At(old, 1) * 65536 + At(old, 2) * 256 + At(old, 3)
           IN  swap.objs[1].handshake_buffer
                   = swap.objs[1].innerch \o SubSeq(old, 4 + L + 1, Len(old))

\* C11: on the server, once ech_process_inner_if_present has decoded the
\* inner ClientHello and swapped with success and the verify result is OK,
\* SSL_ech_get_status on the current session returns SUCCESS, reports as
\* inner_sni the host name of the inner ClientHello and as outer_sni the
\* host name the outer ClientHello carried.
C11_StatusAfterSwap ==
    (swap.pc = "reported" /\ swap.swaprv = 1 /\ swap.env.vr_ok)
        => /\ swap.status.rv = SSL_ECH_STATUS_SUCCESS
           /\ swap.status.inner_sni = swap.env.inner_name
           /\ swap.env.outer_name # NULL
                  => swap.status.outer_sni = swap.env.outer_name

C11_Witness ==
    /\ swap.pc = "reported" /\ swap.swaprv = 1 /\ swap.env.vr_ok
    /\ swap.env.outer_name # NULL
    /\ swap.status.rv = SSL_ECH_STATUS_SUCCESS
    /\ swap.status.inner_sni = HostNames.inner
    /\ swap.status.outer_sni = HostNames.outer

\* C12: a session whose grease flag is is-grease reports GREASE, also when
\* it has ECH configs loaded and ECH was marked as attempted.
C12_GreaseReported ==
    (swap.pc = "reported" /\ swap.objs[1].ech_grease = ECH_IS_GREASE)
        => swap.status.rv = SSL_ECH_STATUS_GREASE

(***************************************************************************)
(* SSL_ECH_dup and SSL_ECH_free.  An SSL_ECH array is a sequence of        *)
(* entries, entry i of the C array being element i+1; the null array is    *)
(* <<>>.  Strings and ECHConfigs are blocks of a heap, named by their      *)
(* position in it; keys are EVP_PKEY objects with a reference count.       *)
(***************************************************************************)
ECH_SELECT_ALL == -1

ZeroSSL_ECH ==
    [cfg |-> NULL, inner_name |-> NULL, outer_name |-> NULL, pemfname |-> NULL,
     keyshare |-> NULL]

\* OPENSSL_malloc of a block that is then filled with val; its address is
\* the length of the heap returned
OPENSSL_malloc(mem, val) ==
    [mem EXCEPT !.heap = Append(@, [live |-> TRUE, val |-> val])]

OPENSSL_free(mem, p) ==
    IF p = NULL THEN mem
    ELSE IF ~mem.heap[p].live THEN [mem EXCEPT !.ub = @ \cup {"double free"}]
    ELSE [mem EXCEPT !.heap[p].live = FALSE]

OPENSSL_strdup(mem, p) ==
    OPENSSL_malloc([mem EXCEPT !.ub = IF mem.heap[p].live THEN @
                                      ELSE @ \cup {"use after free"}],
                   mem.heap[p].val)

EVP_PKEY_up_ref(mem, k) ==
    [mem EXCEPT !.refs[k] = @ + 1,
                !.ub = IF mem.dead[k] THEN @ \cup {"use after free"} ELSE @]

\* EVP_PKEY_free: drops one reference, destroys the key with the last one
EVP_PKEY_free(mem, k) ==
    IF k = NULL THEN mem
    ELSE IF mem.dead[k] THEN [mem EXCEPT !.ub = @ \cup {"double free"}]
    ELSE [mem EXCEPT !.refs[k] = @ - 1, !.dead[k] = (mem.refs[k] = 1)]

\* SSL_ECH_free(tbf) with *tbf = e; the entry itself is left zeroed
SSL_ECH_free(mem, e) ==
    EVP_PKEY_free(
        OPENSSL_free(OPENSSL_free(OPENSSL_free(OPENSSL_free(mem, e.cfg),
                                               e.inner_name),
                                  e.outer_name),
                     e.pemfname),
        e.keyshare)

\* the loop of SSL_ECH_dup over i = min_ind .. max_ind-1 on an array of len
\* entries: new_se[i] is outside the array when i >= len
RECURSIVE DupLoop(_, _, _, _, _)
DupLoop(st, orig, len, i, max_ind) ==
    IF i = max_ind THEN st
    ELSE With(OPENSSL_malloc(st.mem, st.mem.heap[orig[i + 1].cfg].val), LAMBDA m2 :
         DupLoop(IF i < len
                 THEN [st EXCEPT !.mem = m2,
                                 !.ret[i + 1] = [orig[i + 1] EXCEPT !.cfg = Len(m2.heap)]]
                 ELSE [st EXCEPT !.mem = m2, !.oob = TRUE],
                 orig, len, i + 1, max_ind))

\* if (orig->f != NULL) new_se->f = OPENSSL_strdup(orig->f)
DupString(st, orig, f) ==
    IF orig[1][f] = NULL THEN st
    ELSE With(OPENSSL_strdup(st.mem, orig[1][f]), LAMBDA m2 :
         [st EXCEPT !.mem = m2, !.ret[1][f] = Len(m2.heap)])

\* if (orig->keyshare != NULL) { new_se->keyshare = orig->keyshare; up_ref }
DupKey(st, orig) ==
    IF orig[1].keyshare = NULL THEN st
    ELSE [st EXCEPT !.mem = EVP_PKEY_up_ref(st.mem, orig[1].keyshare),
                    !.ret[1].keyshare = orig[1].keyshare]

\* SSL_ECH_dup(orig, nech, selector): the memory afterwards, the array
\* returned and whether a write went outside it
SSL_ECH_dup(mem, orig, nech, selector) ==
    IF selector # ECH_SELECT_ALL /\ selector < 0
    THEN [mem |-> mem, ret |-> <<>>, oob |-> FALSE]
    ELSE IF selector # ECH_SELECT_ALL /\ selector >= nech
    THEN [mem |-> mem, ret |-> <<>>, oob |-> FALSE]
    ELSE
    With(IF selector # ECH_SELECT_ALL THEN selector ELSE 0, LAMBDA min_ind :
    With(IF selector # ECH_SELECT_ALL THEN selector + 1 ELSE nech, LAMBDA max_ind :
    With(DupLoop([mem |-> mem,
                  ret |-> [i \in 1..(max_ind - min_ind) |-> ZeroSSL_ECH],
                  oob |-> FALSE],
                 orig, max_ind - min_ind, min_ind, max_ind), LAMBDA lp :
    DupKey(DupString(DupString(DupString(lp, orig, "inner_name"), orig,
                               "outer_name"), orig, "pemfname"), orig))))

(***************************************************************************)
(* SpecDup: a context with one or two loaded configs, each with the PEM    *)
(* file name and the private key of its file; copies are made with         *)
(* SSL_ECH_dup and arrays are torn down entry by entry with SSL_ECH_free.  *)
(***************************************************************************)
MaxEch == 2
MaxCopies == 2

\* the heap after loading nech configs: entry i has its ECHConfigs in block
\* 3i+1, its PEM file name in 3i+2 and, for the entries in named, an inner
\* name in 3i+3
LoadedHeap(nech, named) ==
    [b \in 1..(3 * nech) |->
        [live |-> (b % 3 # 0) \/ ((b - 1) \div 3) \in named, val |-> b]]

LoadedEchs(nech, named) ==
    [i \in 1..nech |->
        [cfg |-> 3 * (i - 1) + 1, pemfname |-> 3 * (i - 1) + 2,
         inner_name |-> IF (i - 1) \in named THEN 3 * i ELSE NULL,
         outer_name |-> NULL, keyshare |-> i]]

NoDupCall == [selector |-> 0, nech |-> 0, orig |-> <<>>, ret |-> <<>>, oob |-> FALSE]

InitDup ==
    /\ \E nech \in 1..MaxEch : \E named \in SUBSET (0..(nech - 1)) :
           dup = [pc |-> "loaded",
                  mem |-> [heap |-> LoadedHeap(nech, named),
                           refs |-> [k \in 1..MaxEch |-> IF k <= nech THEN 1 ELSE 0],
                           dead |-> [k \in 1..MaxEch |-> FALSE],
                           ub |-> {}],
                  orig |-> LoadedEchs(nech, named), nech |-> nech,
                  copies |-> <<>>, call |-> NoDupCall]
    /\ hpke = HpkeIdle
    /\ codec = CodecIdle
    /\ cfg = CfgIdle
    /\ srv = SrvIdle
    /\ conc = ConcIdle
    /\ swap = SwapIdle
    /\ fn = FnIdle

\* a statement that wrote outside its array or used freed memory crashes or
\* goes on
DupOutcomes(bad, next) ==
    {next} \cup (IF bad THEN {[next EXCEPT !.pc = "crashed"]} ELSE {})

EchDup(selector) ==
    /\ dup.pc = "loaded"
    /\ dup.orig # <<>>
    /\ Len(dup.copies) < MaxCopies
    /\ \E r \in {SSL_ECH_dup(dup.mem, dup.orig, dup.nech, selector)} :
           dup' \in DupOutcomes(r.oob \/ r.mem.ub # dup.mem.ub,
                       [dup EXCEPT !.mem = r.mem,
                                   !.copies = IF r.ret = <<>> THEN @ ELSE Append(@, r.ret),
                                   !.call = [selector |-> selector, nech |-> dup.nech,
                                             orig |-> dup.orig, ret |-> r.ret,
                                             oob |-> r.oob]])
    /\ UNCHANGED notDup

\* SSL_ECH_free on every entry of an array
RECURSIVE FreeAll(_, _)
FreeAll(mem, arr) ==
    IF arr = <<>> THEN mem ELSE FreeAll(SSL_ECH_free(mem, Head(arr)), Tail(arr))

\* a session is torn down: its array is freed
FreeCopy(c) ==
    /\ dup.pc = "loaded"
    /\ c \in 1..Len(dup.copies)
    /\ dup.copies[c] # <<>>
    /\ \E m2 \in {FreeAll(dup.mem, dup.copies[c])} :
           dup' \in DupOutcomes(m2.ub # dup.mem.ub,
                       [dup EXCEPT !.mem = m2, !.copies[c] = <<>>, !.call = NoDupCall])
    /\ UNCHANGED notDup

\* the context is torn down: the loaded array is freed
FreeOrig ==
    /\ dup.pc = "loaded"
    /\ dup.orig # <<>>
    /\ \E m2 \in {FreeAll(dup.mem, dup.orig)} :
           dup' \in DupOutcomes(m2.ub # dup.mem.ub,
                       [dup EXCEPT !.mem = m2, !.orig = <<>>, !.call = NoDupCall])
    /\ UNCHANGED notDup

DupSelectors == (ECH_SELECT_ALL - 1)..MaxEch

NextDup ==
    \/ \E selector \in DupSelectors : EchDup(selector)
    \/ \E c \in 1..MaxCopies : FreeCopy(c)
    \/ FreeOrig

\* entry n is a deep copy of entry o: the same key, and for the ECHConfigs
\* and every string a block of its own with the same contents
DeepCopyOf(n, o, heap) ==
    /\ n.keyshare = o.keyshare
    /\ \A f \in {"cfg", "inner_name", "outer_name", "pemfname"} :
           IF o[f] = NULL THEN n[f] = NULL
           ELSE n[f] # NULL /\ n[f] # o[f] /\ heap[n[f]].val = heap[o[f]].val

\* C13: SSL_ECH_dup honours the selector: ECH_SELECT_ALL gives nech entries,
\* entry i a deep copy of orig[i]; 0 <= selector < nech gives one entry, a
\* deep copy of orig[selector] with its names, file name and key; any other
\* selector gives NULL; and no write goes outside the allocated array.
C13_DupHonoursSelector ==
    (dup.pc # "idle" /\ dup.call # NoDupCall)
        => /\ ~dup.call.oob
           /\ IF dup.call.selector = ECH_SELECT_ALL
              THEN /\ Len(dup.call.ret) = dup.call.nech
                   /\ \A i \in 1..dup.call.nech :
                          DeepCopyOf(dup.call.ret[i], dup.call.orig[i], dup.mem.heap)
              ELSE IF dup.call.selector >= 0 /\ dup.call.selector < dup.call.nech
              THEN /\ Len(dup.call.ret) = 1
                   /\ DeepCopyOf(dup.call.ret[1], dup.call.orig[dup.call.selector + 1],
                                 dup.mem.heap)
              ELSE dup.call.ret = <<>>

\* the live entries that hold key k
Holders(k) ==
    Cardinality({i \in 1..Len(dup.orig) : dup.orig[i].keyshare = k})
    + SumTo([c \in 1..Len(dup.copies) |->
                Cardinality({i \in 1..Len(dup.copies[c]) :
                                 dup.copies[c][i].keyshare = k})], Len(dup.copies))

\* C14: after any sequence of SSL_ECH_dup and SSL_ECH_free on loaded
\* configs the reference count of each key is the number of live entries
\* that hold it: no key is released twice or used after it was destroyed.
C14_RefCounts ==
    dup.pc # "idle"
        => /\ dup.mem.ub \cap {"double free", "use after free"} = {}
           /\ \A k \in 1..MaxEch : dup.mem.refs[k] = Holders(k)
           /\ \A k \in 1..MaxEch : dup.mem.dead[k] => Holders(k) = 0

(***************************************************************************)
(* SpecFn: one call of a library function.  fn.op names the function, the  *)
(* other fields are its arguments; the action of that function stores what *)
(* it returned in fn.ret.                                                  *)
(***************************************************************************)
\* one suite for each KEM
KemSuites == {s \in Suites : s.kdf_id = 1 /\ s.aead_id = 1}

\* the pskid and psk arguments: a null pointer, an empty C string or an
\* identifier; no key, a key buffer with psklen 0 or a key of two octets
PskIdArgs == {Null, Bytes(<<>>), Bytes(<<112>>)}
PskArgs == {Null, B(<<7, 7>>, 0), Bytes(<<7, 7>>)}

PskCalls ==
    {[pc |-> "call", op |-> "hpke_psk", mode |-> mode, suite |-> suite,
      pskid |-> pskid, psk |-> psk, ret |-> <<>>] :
        mode \in HPKE_MODE_BASE..HPKE_MODE_PSKAUTH, suite \in KemSuites,
        pskid \in PskIdArgs, psk \in PskArgs}

\* hpke_enc with the arguments of the call and, on what it sealed (or on a
\* ciphertext of the right size when it sealed nothing), hpke_dec with the
\* same mode, suite and PSK arguments
CallHpkePsk ==
    /\ fn.pc = "call" /\ fn.op = "hpke_psk"
    /\ \E e \in {hpke_enc(fn.mode, fn.suite, fn.pskid, fn.psk,
                          EVP_PKEY_get1_tls_encodedpoint(fn.suite, KeyPair(1)),
                          RawPriv(fn.suite, 2), Bytes(<<4, 5>>), Null, Bytes(<<1>>),
                          HPKE_MAXSIZE, HPKE_MAXSIZE, 2)} :
       \E d \in {hpke_dec(fn.mode, fn.suite, fn.pskid, fn.psk,
                          IF fn.mode \in {HPKE_MODE_AUTH, HPKE_MODE_PSKAUTH}
                          THEN EVP_PKEY_get1_tls_encodedpoint(fn.suite, KeyPair(2))
                          ELSE Null,
                          RawPriv(fn.suite, 1), NoKey,
                          IF e.erv = 1 THEN e.senderpub
                          ELSE EVP_PKEY_get1_tls_encodedpoint(fn.suite, KeyPair(2)),
                          IF e.erv = 1 THEN e.cipher ELSE B(<<>>, 18),
                          Null, Bytes(<<1>>), HPKE_MAXSIZE)} :
           fn' = [fn EXCEPT !.pc = "done", !.ret = [enc |-> e.erv, dec |-> d.erv]]
    /\ UNCHANGED notFn

\* ciphertexts handed to hpke_aead_dec: what hpke_aead_enc made of a
\* plaintext of up to MaxPlain octets, and the first cipherlen octets of it
MaxPlain == 2
AeadKey == B(<<8>>, 16)
AeadNonce == B(<<9>>, 12)

AeadCalls ==
    {[pc |-> "call", op |-> "hpke_aead_dec", suite |-> suite, aad |-> aad,
      cipher |-> B(hpke_aead_enc(suite, AeadKey, AeadNonce, aad,
                                 B(<<>>, plainlen), HPKE_MAXSIZE).cipher.d, cipherlen),
      ret |-> <<>>] :
        suite \in {s \in Suites : s.kem_id = HPKE_KEM_ID_P256 /\ s.kdf_id = 1},
        aad \in AadInputs, plainlen \in 0..MaxPlain,
        cipherlen \in 0..(hpke_aead_tab[1].taglen + MaxPlain)}

\* hpke_aead_dec as hpke_dec calls it.  When cipherlen-taglen wrapped
\* around, EVP_DecryptUpdate is handed the wrapped length and the tag is
\* taken from before the buffer: the library refuses the length, or reads
\* outside the buffer and crashes, or reads outside it and the tag fails.
CallAeadDec ==
    /\ fn.pc = "call" /\ fn.op = "hpke_aead_dec"
    /\ \E r \in {hpke_aead_dec(fn.suite, AeadKey, AeadNonce, fn.aad, fn.cipher,
                                HPKE_MAXSIZE)} :
       \E out \in IF r.oob
                   THEN {[erv |-> 477, wrapped |-> TRUE, outside |-> FALSE],
                         [erv |-> 0, wrapped |-> TRUE, outside |-> TRUE],
                         [erv |-> 489, wrapped |-> TRUE, outside |-> TRUE]}
                   ELSE {[erv |-> r.erv, wrapped |-> FALSE, outside |-> FALSE]} :
           fn' = [fn EXCEPT !.pc = IF out.erv = 0 THEN "crashed" ELSE "done",
                            !.ret = out]
    /\ UNCHANGED notFn

\* calls of hpke_extract and hpke_expand with a label of the library and
\* an input (ikm or info) whose length lies below, at or above what is left
\* of the scratch buffer
HkdfLens ==
    {1, HPKE_MAXSIZE - 40, HPKE_MAXSIZE - 17, HPKE_MAXSIZE - 16, HPKE_MAXSIZE - 15,
     HPKE_MAXSIZE - 10, HPKE_MAXSIZE - 1, HPKE_MAXSIZE, HPKE_MAXSIZE + 1}

HkdfCalls ==
    {[pc |-> "call", op |-> op, suite |-> suite, mode5869 |-> mode5869,
      label |-> label, input |-> B(<<2>>, n), ret |-> <<>>] :
        op \in {"hpke_extract", "hpke_expand"},
        suite \in {s \in KemSuites : s.kem_id \in {HPKE_KEM_ID_P256, HPKE_KEM_ID_25519}},
        mode5869 \in {HPKE_5869_MODE_PURE, HPKE_5869_MODE_KEM, HPKE_5869_MODE_FULL},
        label \in {Bytes(HPKE_EAE_PRK_LABEL), Bytes(HPKE_KEY_LABEL)},
        n \in HkdfLens}

\* a call that stored octets beyond its scratch buffer crashes or goes on
CallHkdf ==
    /\ fn.pc = "call" /\ fn.op \in {"hpke_extract", "hpke_expand"}
    /\ \E r \in {IF fn.op = "hpke_extract"
                  THEN [erv |-> hpke_extract(fn.suite, fn.mode5869, Bytes(<<>>), fn.label,
                                             fn.input, HPKE_MAXSIZE).erv,
                        end |-> ExtractEnd(fn.mode5869, fn.label, fn.input)]
                  ELSE [erv |-> hpke_expand(fn.suite, fn.mode5869, B(<<1>>, 32), fn.label,
                                            fn.input, 32, 32).erv,
                        end |-> ExpandEnd(fn.mode5869, fn.label, fn.input)]} :
       \E crashed \in IF r.end > HPKE_MAXSIZE THEN BOOLEAN ELSE {FALSE} :
           fn' = [fn EXCEPT !.pc = IF crashed THEN "crashed" ELSE "done", !.ret = r]
    /\ UNCHANGED notFn

\* the formats of ech.h, by name
ECH_FMT_HTTPSSVC == "HTTPSSVC"
ECH_FMT_ASCIIHEX == "ASCIIHEX"
ECH_FMT_B64TXT == "B64TXT"
ECH_FMT_BIN == "BIN"

\* "0123456789ABCDEFabcdef;"
AH_alphabet == (48..57) \cup (65..70) \cup (97..102) \cup {59}

\* "A..Za..z0..9+/=;"
B64_alphabet == (65..90) \cup (97..122) \cup (48..57) \cup {43, 47, 61, 59}

\* "echconfig="
httpssvc_telltale == <<101, 99, 104, 99, 111, 110, 102, 105, 103, 61>>

\* the last octet of the C string that starts at octet i of memory m: the
\* one before the first zero octet
CStringEnd(m, i) ==
    IF \E j \in i..Len(m) : m[j] = 0
    THEN (CHOOSE j \in i..Len(m) : m[j] = 0 /\ \A k \in i..(j - 1) : m[k] # 0) - 1
    ELSE Len(m)

\* strspn(s, accept) on the C string at the start of m
strspn(m, accept) ==
    IF \E j \in 1..CStringEnd(m, 1) : m[j] \notin accept
    THEN (CHOOSE j \in 1..CStringEnd(m, 1) :
              m[j] \notin accept /\ \A k \in 1..(j - 1) : m[k] \in accept) - 1
    ELSE CStringEnd(m, 1)

\* strstr(s, needle) # NULL on the C string at the start of m
strstr(m, needle) ==
    \E j \in 1..(CStringEnd(m, 1) - Len(needle) + 1) :
        SubSeq(m, j, j + Len(needle) - 1) = needle

\* ech_guess_fmt(eklen, rrval, &guessedfmt), m being the memory from rrval
\* on: the eklen octets of the value and what follows them
ech_guess_fmt(eklen, m) ==
    IF eklen <= 0 THEN [rv |-> 0, guessedfmt |-> ECH_FMT_BIN]
    ELSE IF strstr(m, httpssvc_telltale) THEN [rv |-> 1, guessedfmt |-> ECH_FMT_HTTPSSVC]
    ELSE IF eklen <= strspn(m, AH_alphabet) THEN [rv |-> 1, guessedfmt |-> ECH_FMT_ASCIIHEX]
    ELSE IF eklen <= strspn(m, B64_alphabet) THEN [rv |-> 1, guessedfmt |-> ECH_FMT_B64TXT]
    ELSE [rv |-> 1, guessedfmt |-> ECH_FMT_BIN]

\* values handed to ech_guess_fmt: up to MaxChunks pieces, each the
\* telltale, a zero octet, hex digits, base64 letters, a semi-colon or an
\* octet of neither alphabet; after the value lies its terminator, or
\* memory that is not part of the value
MaxChunks == 3
Chunks == {httpssvc_telltale, <<0>>, <<65, 66>>, <<90, 122>>, <<59>>, <<33>>}

RECURSIVE ChunkSeqs(_)
ChunkSeqs(n) ==
    IF n = 0 THEN {<<>>}
    ELSE ChunkSeqs(n - 1)
             \cup {s \o c : s \in {x \in ChunkSeqs(n - 1) : x # <<>>} \cup {<<>>},
                              c \in Chunks}

GuessCalls ==
    {[pc |-> "call", op |-> "ech_guess_fmt", val |-> val, after |-> after, ret |-> <<>>] :
        val \in ChunkSeqs(MaxChunks) \ {<<>>},
        after \in {<<0>>, <<65, 0>>, httpssvc_telltale \o <<0>>}}

\* a scan that was not stopped inside the value reads what follows it; when
\* that is not the value's terminator the read may crash
CallGuessFmt ==
    /\ fn.pc = "call" /\ fn.op = "ech_guess_fmt"
    /\ \E crashed \in IF fn.after # <<0>> /\ CStringEnd(fn.val \o fn.after, 1) > Len(fn.val)
                       THEN BOOLEAN ELSE {FALSE} :
           fn' = [fn EXCEPT !.pc = IF crashed THEN "crashed" ELSE "done",
                            !.ret = ech_guess_fmt(Len(fn.val), fn.val \o fn.after)]
    /\ UNCHANGED notFn

\* encoded lists of one record of version 0xff09 that is valid but for
\* the length of its public_name
NameLens ==
    {0, 1, 2, 3, TLSEXT_MAXLEN_host_name - 1, TLSEXT_MAXLEN_host_name,
     TLSEXT_MAXLEN_host_name + 1}

NameCalls ==
    {[pc |-> "call", op |-> "ECHConfigs_from_binary", public_name_len |-> n,
      binbuf |-> EncodeConfigs(<<[k EXCEPT !.public_name = [i \in 1..n |-> 97],
                                           !.pub = [i \in 1..32 |-> 40]]>>),
      ret |-> <<>>] :
        n \in NameLens, k \in {c \in ConfigKinds : c.version = ECH_DRAFT_09_VERSION}}

CallFromBinary ==
    /\ fn.pc = "call" /\ fn.op = "ECHConfigs_from_binary"
    /\ fn' = [fn EXCEPT !.pc = "done", !.ret = ECHConfigs_from_binary(fn.binbuf)]
    /\ UNCHANGED notFn

\* HPKE_A2B of hpke.h: the value of a hex digit, 0 for any other octet
HPKE_A2B(c) ==
    IF c \in 48..57 THEN c - 48
    ELSE IF c \in 65..70 THEN c - 65 + 10
    ELSE IF c \in 97..102 THEN c - 97 + 10
    ELSE 0

\* hpke_ah_decode(ahlen, ah, &blen, &buf); OPENSSL_malloc(0) returns NULL
hpke_ah_decode(ahlen, ah) ==
    IF ahlen <= 0 \/ ah.null THEN [rv |-> 0, buf |-> <<>>]
    ELSE IF ahlen % 1 # 0 THEN [rv |-> 0, buf |-> <<>>]
    ELSE IF ahlen \div 2 = 0 THEN [rv |-> 0, buf |-> <<>>]
    ELSE [rv |-> 1,
          buf |-> [i \in 1..(ahlen \div 2) |->
                      HPKE_A2B(ah.d[2 * i - 1]) * 16 + HPKE_A2B(ah.d[2 * i])]]

\* strings of 1 to MaxHex hex digits
MaxHex == 4
HexDigits == {48, 70, 97}

RECURSIVE HexStrings(_)
HexStrings(n) ==
    IF n = 0 THEN {<<>>}
    ELSE HexStrings(n - 1)
             \cup {Append(s, c) : s \in {x \in HexStrings(n - 1) : Len(x) = n - 1},
                                  c \in HexDigits}

AhCalls ==
    {[pc |-> "call", op |-> "hpke_ah_decode", ah |-> Bytes(ah), ret |-> <<>>] :
        ah \in HexStrings(MaxHex) \ {<<>>}}

\* local_ech_add hands eklen and the value to hpke_ah_decode as they are
CallAhDecode ==
    /\ fn.pc = "call" /\ fn.op = "hpke_ah_decode"
    /\ fn' = [fn EXCEPT !.pc = "done", !.ret = hpke_ah_decode(fn.ah.n, fn.ah)]
    /\ UNCHANGED notFn

\* ech_decode_inner on what a peer may send.  The outer ClientHello carries
\* server_name and extensions of two types the extension table does not
\* know, which may repeat; the encoded inner carries server_name and an
\* outer_extensions that enumerates some of these types.
DecTypes == {2570, 6682}

DecValue(type) ==
    CASE type = 0 -> <<0, 3, 0, 0, 0>>
      [] type = 2570 -> <<>>
      [] OTHER -> <<9>>

MaxOuters == 2        \* types enumerated by outer_extensions
MaxOuterExts == 3     \* extensions of the outer ClientHello

RECURSIVE SeqsUpTo(_, _)
SeqsUpTo(S, n) ==
    IF n = 0 THEN {<<>>}
    ELSE With(SeqsUpTo(S, n - 1), LAMBDA shorter :
              shorter \cup {Append(q, x) : q \in {r \in shorter : Len(r) = n - 1}, x \in S})

OuterLists ==
    (SeqsUpTo(DecTypes, MaxOuters) \ {<<>>})
    \cup {[i \in 1..n |-> 2570] : n \in {ECH_OUTERS_MAX, ECH_OUTERS_MAX + 1}}

OuterRegion(types) ==
    SumSeq([i \in 1..Len(types) |-> ExtBytes(types[i], DecValue(types[i]))], Len(types))

\* the encoded inner; bad names the length field that points past the end
\* of the buffer: the cipher suites length, the extensions length or the
\* length of server_name
EncodedInner(outers, bad) ==
    LET far == 300
        ciphers == <<19, 1, 19, 2>>
        sni == U16(0) \o U16(Len(DecValue(0)) + (IF bad = "ext" THEN far ELSE 0))
               \o DecValue(0)
        oe == IF outers = <<>> THEN <<>>
              ELSE U16(TLSEXT_TYPE_outer_extensions) \o U16(2 * Len(outers))
                   \o SumSeq([i \in 1..Len(outers) |-> U16(outers[i])], Len(outers))
        exts == sni \o oe
        body == U16(771) \o [i \in 1..SSL3_RANDOM_SIZE |-> i]
                \o <<0>>
                \o U16(Len(ciphers) + (IF bad = "suites" THEN far ELSE 0)) \o ciphers
                \o <<1, 0>>
                \o U16(Len(exts) + (IF bad = "exts" THEN far ELSE 0)) \o exts
    IN  <<SSL3_MT_CLIENT_HELLO>> \o U24(Len(body)) \o body

DecodeCalls ==
    {[pc |-> "call", op |-> "ech_decode_inner", outers |-> outers, outer |-> outer,
      bad |-> "none", encoded |-> EncodedInner(outers, "none"),
      oexts |-> OuterRegion(outer), ret |-> <<>>] :
        outers \in OuterLists, outer \in SeqsUpTo({0} \cup DecTypes, MaxOuterExts)}
    \cup
    {[pc |-> "call", op |-> "ech_decode_inner", outers |-> outers, outer |-> <<0, 2570>>,
      bad |-> bad, encoded |-> EncodedInner(outers, bad),
      oexts |-> OuterRegion(<<0, 2570>>), ret |-> <<>>] :
        outers \in {<<>>, <<2570>>}, bad \in {"suites", "exts", "ext"}}

\* an access outside a buffer or a splice from unwritten array elements may
\* end the process or let the call go on
CallDecodeInner ==
    /\ fn.pc = "call" /\ fn.op = "ech_decode_inner"
    /\ \E r \in {ech_decode_inner(fn.encoded, <<7>>, fn.oexts)} :
       \E pc \in IF r.oob \/ r.uninit THEN {"done", "crashed"} ELSE {"done"} :
           fn' = [fn EXCEPT !.pc = pc, !.ret = r]
    /\ UNCHANGED notFn

\* local_ech_add on the concatenation of encoded lists, each of one or two
\* records of version 0xff09
MaxLists == 3

KnownLists ==
    With({c \in ConfigKinds : c.version = ECH_DRAFT_09_VERSION}, LAMBDA known :
         SeqsUpTo(known, 2) \ {<<>>})

ConcatCalls ==
    {[pc |-> "call", op |-> "local_ech_add", lists |-> lists,
      ekval |-> SumSeq([j \in 1..Len(lists) |-> EncodeConfigs(lists[j])], Len(lists)),
      ret |-> <<>>] :
        lists \in SeqsUpTo(KnownLists, MaxLists) \ {<<>>}}

\* a parse that starts beyond the value may end the process or fail
CallLocalEchAdd ==
    /\ fn.pc = "call" /\ fn.op = "local_ech_add"
    /\ \E r \in {local_ech_add(fn.ekval)} :
       \E pc \in IF r.oob THEN {"done", "crashed"} ELSE {"done"} :
           fn' = [fn EXCEPT !.pc = pc, !.ret = r]
    /\ UNCHANGED notFn

\* The buffers one load allocates and has not freed when it returns.  A
\* buffer is named by the variable or field that held it, the list and the
\* record it belongs to; the records' extension arrays are not counted.
Buffer(buf, list, rec) == [buf |-> buf, list |-> list, rec |-> rec]

\* the buffers of the first n records of list j and the first held buffers
\* of the record behind them
RecordBuffers(j, n, held) ==
    {Buffer(b, j, i) : b \in {"public_name", "pub", "ciphersuites"}, i \in 1..n}
    \cup {Buffer(<<"public_name", "pub", "ciphersuites">>[k], j, n + 1) : k \in 1..held}

\* ECHConfigs_from_binary: on success the ECHConfigs, the record array and
\* the records' buffers go to the caller; at err: the record array is
\* freed, er being still NULL, and nothing else
ECHConfigs_from_binary_allocated(binbuf, j) ==
    LET binblen == Len(binbuf)
    IN  IF binblen < ECH_MIN_ECHCONFIG_LEN \/ binblen >= ECH_MAX_ECHCONFIG_LEN THEN {}
        ELSE With(At16(binbuf, 0), LAMBDA olen :
        IF olen < ECH_MIN_ECHCONFIG_LEN \/ olen > binblen - 2 THEN {}
        ELSE With(RecordLoop(binbuf, 2, PACKET_remaining(binbuf, 2), binblen - olen,
                             <<>>), LAMBDA r :
        IF ECHConfigs_from_binary(binbuf).ok
        THEN {Buffer("er", j, 0), Buffer("te", j, 0)} \cup RecordBuffers(j, Len(r.recs), 0)
        ELSE RecordBuffers(j, Len(r.recs), r.held)))

\* local_ech_add: outbuf, the SSL_ECH array and what the parse of the first
\* list left; err: frees outbuf only.  A parse of a second list starts
\* beyond outbuf and is taken to fail.
local_ech_add_allocated(ekval) ==
    IF Len(ekval) = 0 THEN {}
    ELSE {Buffer("retechs", 0, 0)} \cup ECHConfigs_from_binary_allocated(ekval, 1)
         \cup (IF local_ech_add(ekval).rv = 1 THEN {Buffer("outbuf", 0, 0)} ELSE {})

\* SSL_CTX_ech_server_enable on a context without keys and a file with a
\* private key and the block pdata: what it returns and the buffers that
\* are allocated and out of reach afterwards.  ech_readpemfile frees at
\* err: what it allocated itself; after its success the key and the copy
\* of the file name hang on the SSL_ECH array.
ServerEnableLeaks(pdata) ==
    LET fs == [f \in Files |-> [exists |-> TRUE, mtime |-> 1, priv |-> 1,
                                pdata |-> pdata, nrecs |-> 0]]
    IN  With(SSL_CTX_ech_server_enable([ech |-> <<>>, nechs |-> 0], fs, 1, 1), LAMBDA r :
        [rv |-> r.rv, crashable |-> r.crashable,
         leaked |-> IF r.rv = 1 THEN {}
                    ELSE local_ech_add_allocated(pdata)
                         \cup (IF local_ech_add(pdata).rv = 1
                               THEN {Buffer("pemfname", 0, 0), Buffer("keyshare", 0, 0)}
                               ELSE {})])

\* ECHCONFIG blocks: one record; two records; a record followed by one
\* whose public_name is too short, or whose version is unknown and which
\* is cut short; an unknown version alone; two lists
LoadBlocks ==
    With(CHOOSE c \in ConfigKinds : c.version = ECH_DRAFT_09_VERSION, LAMBDA k :
    With(CHOOSE c \in ConfigKinds : c.version # ECH_DRAFT_09_VERSION, LAMBDA u :
        {EncodeConfigs(<<k>>), EncodeConfigs(<<k, k>>),
         EncodeConfigs(<<k, [k EXCEPT !.public_name = <<97>>]>>),
         EncodeConfigs(<<k, [k EXCEPT !.pub = <<>>, !.ciphersuites = <<>>]>>),
         EncodeConfigs(<<u>>),
         EncodeConfigs(<<k>>) \o EncodeConfigs(<<k>>)}))

LoadCalls ==
    {[pc |-> "call", op |-> "SSL_CTX_ech_server_enable", pdata |-> pdata, ret |-> <<>>] :
        pdata \in LoadBlocks}

CallServerEnable ==
    /\ fn.pc = "call" /\ fn.op = "SSL_CTX_ech_server_enable"
    /\ \E r \in {ServerEnableLeaks(fn.pdata)} :
       \E pc \in IF r.crashable THEN {"done", "crashed"} ELSE {"done"} :
           fn' = [fn EXCEPT !.pc = pc, !.ret = r]
    /\ UNCHANGED notFn

ECH_SAME_EXT_ERR == 0
ECH_SAME_EXT_DONE == 1
ECH_SAME_EXT_CONTINUE == 2

\* the slots of the extension table (TLSEXT_IDX_*) and, for the first of
\* them, the extension type: renegotiate, server_name,
\* max_fragment_length, srp, ec_point_formats, supported_groups,
\* session_ticket, status_request
TLSEXT_IDX_count == 29

ExtSlotTypes == <<65281, 0, 1, 12, 11, 10, 35, 5>>

\* ech_map_ext_type_to_ind: the slot of an extension type, -1 for a type
\* the table does not have
ech_map_ext_type_to_ind(type) ==
    IF \E i \in 1..Len(ExtSlotTypes) : ExtSlotTypes[i] = type
    THEN (CHOOSE i \in 1..Len(ExtSlotTypes) : ExtSlotTypes[i] = type) - 1
    ELSE -1

\* 1 for the slots whose extension is compressed in the inner
ech_outer_config == [tind \in 0..(TLSEXT_IDX_count - 1) |-> IF tind \in 2..5 THEN 1 ELSE 0]

\* 1 for the slots whose outer value is made independently of the inner:
\* server_name, application_layer_protocol_negotiation, key_share
ech_outer_indep == [tind \in 0..(TLSEXT_IDX_count - 1) |-> IF tind \in {1, 9, 19} THEN 1 ELSE 0]

\* ech_same_ext: the return value, the session and the packet afterwards.
\* s: ech, ch_depth, etype, n_outer_only, outer_only, and the inner
\* session's clienthello (NULL, or its pre_proc_exts)
SameExt(s, pkt, limit) ==
    LET ret(rv, s2, pkt2) == [rv |-> rv, s |-> s2, pkt |-> pkt2]
        type == s.etype
        nexts == TLSEXT_IDX_count
        tind == ech_map_ext_type_to_ind(type)
        found == {ind \in 1..Len(s.inner_raws) : s.inner_raws[ind].type = type}
    IN  IF s.ech = NULL THEN ret(ECH_SAME_EXT_CONTINUE, s, pkt)
        ELSE IF s.ch_depth = 0 THEN ret(ECH_SAME_EXT_CONTINUE, s, pkt)
        ELSE IF tind = -1 THEN ret(ECH_SAME_EXT_ERR, s, pkt)
        ELSE IF tind >= nexts THEN ret(ECH_SAME_EXT_ERR, s, pkt)
        ELSE IF s.ch_depth = 1 /\ ech_outer_config[tind] = 0
        THEN ret(ECH_SAME_EXT_CONTINUE, s, pkt)
        ELSE IF s.ch_depth = 1
        THEN IF s.n_outer_only >= limit THEN ret(ECH_SAME_EXT_ERR, s, pkt)
             ELSE ret(ECH_SAME_EXT_CONTINUE,
                      [s EXCEPT !.outer_only = Append(@, type),
                                !.n_outer_only = @ + 1], pkt)
        ELSE IF s.inner_clienthello = NULL THEN ret(ECH_SAME_EXT_ERR, s, pkt)
        ELSE IF pkt = NULL THEN ret(ECH_SAME_EXT_ERR, s, pkt)
        ELSE IF ech_outer_indep[tind] # 0 THEN ret(ECH_SAME_EXT_CONTINUE, s, pkt)
        ELSE IF found = {} THEN ret(ECH_SAME_EXT_CONTINUE, s, pkt)
        ELSE With(s.inner_raws[CHOOSE ind \in found : \A o \in found : ind <= o],
                  LAMBDA myext :
             ret(ECH_SAME_EXT_DONE, s, pkt \o ExtBytes(type, myext.data)))

\* the same with room for one type more than outer_only[] has
ech_same_ext_one_more(s, pkt) == SameExt(s, pkt, ECH_OUTERS_MAX + 1)

ech_same_ext(s, pkt) == SameExt(s, pkt, ECH_OUTERS_MAX)

\* ech_same_ext while a ClientHello is constructed: the session has an ECH
\* list or none, builds the outer (depth 0) or the inner (depth 1), is at
\* server_name, max_fragment_length, supported_groups or a type the
\* extension table does not have, and has noted up to ECH_OUTERS_MAX types
SameExtCalls ==
    {[pc |-> "call", op |-> "ech_same_ext",
      s |-> [ech |-> ech, ch_depth |-> depth, etype |-> etype, n_outer_only |-> n,
             outer_only |-> [i \in 1..n |-> ExtSlotTypes[3 + (i % 4)]],
             inner_clienthello |-> 1,
             inner_raws |-> <<[type |-> 0, data |-> <<0, 3, 0, 0, 0>>],
                              [type |-> 1, data |-> <<1>>],
                              [type |-> 10, data |-> <<0, 2, 0, 29>>]>>],
      pkt |-> pkt, ret |-> <<>>] :
        ech \in {NULL, 1}, depth \in {0, 1}, etype \in {0, 1, 10, 2570},
        n \in 0..ECH_OUTERS_MAX, pkt \in {<<>>, ExtBytes(0, <<0, 3, 0, 0, 0>>)}}

CallSameExt ==
    /\ fn.pc = "call" /\ fn.op = "ech_same_ext"
    /\ fn' = [fn EXCEPT !.pc = "done", !.ret = ech_same_ext(fn.s, fn.pkt)]
    /\ UNCHANGED notFn

\* suite identifiers are uint16_t: every id up to a little past the tables,
\* and the largest one
MaxKemId == 36
MaxAlgId == 5
UINT16_MAX == 65535

SuiteCalls ==
    {[pc |-> "call", op |-> "hpke_suite_check",
      suite |-> [kem_id |-> k, kdf_id |-> f, aead_id |-> a], ret |-> <<>>] :
        k \in (0..MaxKemId) \cup {UINT16_MAX},
        f \in (0..MaxAlgId) \cup {UINT16_MAX},
        a \in (0..MaxAlgId) \cup {UINT16_MAX}}

CallSuiteCheck ==
    /\ fn.pc = "call" /\ fn.op = "hpke_suite_check"
    /\ fn' = [fn EXCEPT !.pc = "done", !.ret = hpke_suite_check(fn.suite)]
    /\ UNCHANGED notFn

InitFn ==
    /\ fn \in PskCalls \cup AeadCalls \cup HkdfCalls \cup GuessCalls \cup NameCalls
               \cup AhCalls \cup SuiteCalls \cup DecodeCalls \cup ConcatCalls
               \cup LoadCalls \cup SameExtCalls
    /\ hpke = HpkeIdle
    /\ codec = CodecIdle
    /\ cfg = CfgIdle
    /\ srv = SrvIdle
    /\ conc = ConcIdle
    /\ swap = SwapIdle
    /\ dup = DupIdle

NextFn ==
    \/ CallHpkePsk
    \/ CallAeadDec
    \/ CallHkdf
    \/ CallGuessFmt
    \/ CallFromBinary
    \/ CallAhDecode
    \/ CallSuiteCheck
    \/ CallDecodeInner
    \/ CallLocalEchAdd
    \/ CallServerEnable
    \/ CallSameExt

\* C15: in the PSK and PSK+Auth modes hpke_enc and hpke_dec fail unless the
\* psk_id and the psk are both present and non-empty; in the Base and Auth
\* modes no PSK argument makes them fail.
C15_PskRequired ==
    (fn.pc = "done" /\ fn.op = "hpke_psk")
        => IF fn.mode \in {HPKE_MODE_PSK, HPKE_MODE_PSKAUTH}
           THEN (fn.pskid.null \/ fn.pskid.n = 0 \/ fn.psk.null \/ fn.psk.n = 0)
                    => (fn.ret.enc # 1 /\ fn.ret.dec # 1)
           ELSE fn.ret.enc = 1 /\ fn.ret.dec = 1

\* C16: hpke_aead_dec given a ciphertext shorter than the tag fails with a
\* length error: it computes no wrapped-around body length and reads
\* nothing outside the ciphertext buffer.
C16_ShortCipherRejected ==
    (fn.pc \in {"done", "crashed"} /\ fn.op = "hpke_aead_dec"
     /\ fn.cipher.n < hpke_aead_tab[fn.suite.aead_id].taglen)
        => /\ fn.pc = "done"
           /\ fn.ret.erv # 1
           /\ ~fn.ret.wrapped
           /\ ~fn.ret.outside

\* the length the labels, the caller's label and the input take in the
\* scratch buffer of the call (hpke_extract copies nothing in pure mode)
LabeledLen ==
    IF fn.op = "hpke_extract"
    THEN IF fn.mode5869 = HPKE_5869_MODE_PURE THEN 0
         ELSE With(ExtractPieces(fn.mode5869, fn.label, fn.input),
                   LAMBDA ps : SumTo(ps, Len(ps)))
    ELSE IF fn.mode5869 = HPKE_5869_MODE_PURE THEN fn.label.n + fn.input.n
         ELSE With(ExpandPieces(fn.mode5869, fn.label, fn.input),
                   LAMBDA ps : 2 + SumTo(ps, Len(ps)))

\* C17: in every labelling mode hpke_extract and hpke_expand fail when the
\* labels, the caller's label and the input exceed the scratch buffer of
\* HPKE_MAXSIZE octets, and store no octet at or beyond offset HPKE_MAXSIZE
\* before they find that out.
C17_ScratchBounded ==
    (fn.pc \in {"done", "crashed"} /\ fn.op \in {"hpke_extract", "hpke_expand"})
        => /\ fn.pc = "done"
           /\ LabeledLen > HPKE_MAXSIZE => fn.ret.erv # 1
           /\ fn.ret.end <= HPKE_MAXSIZE

\* the format the ordered rules give the octets of a value
RuleFmt(val) ==
    IF \E j \in 1..(Len(val) - Len(httpssvc_telltale) + 1) :
           SubSeq(val, j, j + Len(httpssvc_telltale) - 1) = httpssvc_telltale
    THEN ECH_FMT_HTTPSSVC
    ELSE IF \A j \in 1..Len(val) : val[j] \in AH_alphabet THEN ECH_FMT_ASCIIHEX
    ELSE IF \A j \in 1..Len(val) : val[j] \in B64_alphabet THEN ECH_FMT_B64TXT
    ELSE ECH_FMT_BIN

\* C18: ech_guess_fmt gives every non-empty value the format of the first
\* rule that applies: the literal echconfig= in it, HTTPS/SVCB; else all
\* octets hex digits or ';', ascii-hex; else all octets base64 or ';',
\* base64; else binary.
C18_GuessByRules ==
    (fn.pc = "done" /\ fn.op = "ech_guess_fmt")
        => fn.ret.rv = 1 /\ fn.ret.guessedfmt = RuleFmt(fn.val)

\* C19: ECHConfigs_from_binary accepts a record of version 0xff09, valid
\* in its other fields, exactly when its public_name has 1 to 255 octets.
C19_NameLength ==
    (fn.pc = "done" /\ fn.op = "ECHConfigs_from_binary")
        => ((fn.ret.ok /\ fn.ret.nrecs = 1)
                <=> (fn.public_name_len >= 1
                     /\ fn.public_name_len <= TLSEXT_MAXLEN_host_name))

\* C20: hpke_ah_decode rejects a string with an odd number of hex digits
\* and turns 2n hex digits into exactly n octets.
C20_OddRejected ==
    (fn.pc = "done" /\ fn.op = "hpke_ah_decode")
        => IF fn.ah.n % 2 = 1 THEN fn.ret.rv = 0
           ELSE fn.ret.rv = 1 /\ 2 * Len(fn.ret.buf) = fn.ah.n

\* the suite's three ids each index, inside the table, a row that carries
\* that id and a function pointer
PopulatedRows(suite) ==
    /\ suite.kem_id \in DOMAIN hpke_kem_tab
    /\ hpke_kem_tab[suite.kem_id].kem_id = suite.kem_id
    /\ hpke_kem_tab[suite.kem_id].hash # 0
    /\ suite.kdf_id \in DOMAIN hpke_kdf_tab
    /\ hpke_kdf_tab[suite.kdf_id].kdf_id = suite.kdf_id
    /\ hpke_kdf_tab[suite.kdf_id].hash # 0
    /\ suite.aead_id \in DOMAIN hpke_aead_tab
    /\ hpke_aead_tab[suite.aead_id].aead_id = suite.aead_id
    /\ hpke_aead_tab[suite.aead_id].cipher # 0

\* C23: hpke_suite_check returns 1 exactly for kem_id 0x10, 0x11, 0x12, 0x20
\* or 0x21 with kdf_id 1, 2 or 3 and aead_id 1, 2 or 3, something else for
\* every other triple, and each id of a suite it accepts is the index of a
\* populated row of its table.
C23_SuiteCheck ==
    (fn.pc = "done" /\ fn.op = "hpke_suite_check")
        => /\ fn.ret = 1 <=> (/\ fn.suite.kem_id \in {16, 17, 18, 32, 33}
                              /\ fn.suite.kdf_id \in {1, 2, 3}
                              /\ fn.suite.aead_id \in {1, 2, 3})
           /\ fn.ret = 1 => PopulatedRows(fn.suite)

C23_Witness ==
    /\ fn.pc = "done" /\ fn.op = "hpke_suite_check"
    /\ fn.ret = 1
    /\ fn.suite = [kem_id |-> HPKE_KEM_ID_448, kdf_id |-> 3, aead_id |-> 3]

\* ech_decode_inner has run on a well-formed encoded inner
Decoded == fn.pc \in {"done", "crashed"} /\ fn.op = "ech_decode_inner" /\ fn.bad = "none"

\* how often the outer's extension region carries the type
TimesInOuter(type) == Cardinality({i \in 1..Len(fn.outer) : fn.outer[i] = type})

\* C25: ech_decode_inner fails whenever a type that outer_extensions
\* enumerates is not in the outer's extension region, whatever the list
\* (repeats included) and the region (repeats of another enumerated type
\* included), and on success every spliced extension was read from the outer.
C25_AbsentTypeFails ==
    Decoded
        => /\ (\E i \in 1..Len(fn.outers) : TimesInOuter(fn.outers[i]) = 0)
               => (fn.pc = "done" /\ fn.ret.rv = 0)
           /\ ~fn.ret.uninit

\* C26: ech_decode_inner fails whenever a type that outer_extensions
\* enumerates is twice or more in the outer's extension region.
C26_DuplicateFails ==
    (Decoded /\ \E i \in 1..Len(fn.outers) : TimesInOuter(fn.outers[i]) >= 2)
        => (fn.pc = "done" /\ fn.ret.rv = 0)

\* C27: whatever the encoded inner, one whose cipher suites length,
\* extensions length or an extension length points past the buffer
\* included, ech_decode_inner fails or stays inside its buffers.
C27_InsideBuffers ==
    (fn.pc \in {"done", "crashed"} /\ fn.op = "ech_decode_inner")
        => (fn.pc = "done" /\ ~fn.ret.oob) \/ fn.ret.uninit

\* C28: from the concatenation of k >= 2 well-formed encoded lists
\* local_ech_add returns k entries, entry j with the records of list j, and
\* starts no parse at or beyond the end of the value.
C28_EveryListParsed ==
    (fn.pc \in {"done", "crashed"} /\ fn.op = "local_ech_add" /\ Len(fn.lists) >= 2)
        => /\ fn.pc = "done"
           /\ ~fn.ret.oob
           /\ fn.ret.rv = 1
           /\ fn.ret.num_echs = Len(fn.lists)
           /\ \A j \in 1..Len(fn.lists) :
                  fn.ret.echs[j].cfg.recs
                      = ECHConfigs_from_binary(EncodeConfigs(fn.lists[j])).recs

\* C29: when loading an ECHConfig fails, at whatever step, the call returns
\* failure and no buffer it allocated stays allocated and out of reach.
C29_NothingLeaked ==
    (fn.pc \in {"done", "crashed"} /\ fn.op = "SSL_CTX_ech_server_enable"
     /\ fn.ret.rv # 1)
        => fn.ret.leaked = {}

ReadsFile(f) ==
    /\ srv.fs[f].exists
    /\ srv.fs[f].priv # NULL
    /\ ech_check_filenames(srv.ctx, srv.fs, f).rv \in {ECH_KEYPAIR_NEW, ECH_KEYPAIR_MODIFIED}

C21_Post(f) ==
    (ReadsFile(f) /\ srv.fs[f].nrecs # 1)
        => /\ srv'.pc = "running"
           /\ srv'.call.rv = 0
           /\ srv'.ctx = srv.ctx

\* C21: SSL_CTX_ech_server_enable returns 0 when the ECHCONFIG block of the
\* file it reads holds no record it knows, or two or more, and leaves the
\* context's list and count as they were.
C21_OneRecordOnly == [][\A f \in Files : ServerEnable(f) => C21_Post(f)]_vars

(***************************************************************************)
(* The specifications                                                      *)
(***************************************************************************)
SpecHpke == InitHpke /\ [][NextHpke]_vars

SpecCodec == InitCodec /\ [][NextCodec]_vars

SpecCfg == InitCfg /\ [][NextCfg]_vars

SpecCtx == InitCtx /\ [][NextCtx]_vars

SpecCtxAdd == InitCtx /\ [][NextCtxAdd]_vars

SpecConc == InitConc /\ [][NextConc]_vars

SpecSwap == InitSwap /\ [][NextSwap]_vars

SpecDup == InitDup /\ [][NextDup]_vars

SpecFn == InitFn /\ [][NextFn]_vars

====
